---- MODULE Spec2Model ----
(***************************************************************************)
(* Model of two parts of the saastify_edge package.                        *)
(*                                                                         *)
(* import_pipeline/batch_processor.py: BatchProcessor.process_stream, its  *)
(* producer task, its worker pool and the retry loop, as cooperating       *)
(* asyncio tasks.  One action is one run of a task between two suspension  *)
(* points (awaits that can really suspend).  Specification: Spec.          *)
(*                                                                         *)
(* transformations/engine.py: bulk_apply_pipe_rules and transform with the *)
(* rule parser _parse_dsl_rule and the executor apply_transformations, as  *)
(* functions applied to arguments drawn from bounded sets.  Specification: *)
(* DslSpec.                                                                *)
(***************************************************************************)
EXTENDS Integers, Sequences, FiniteSets, TLC

\* ------------------------------------------------------------------ bounds
MaxBatches == 2       \* the input stream ends within this many batches
MaxBatchSize == 2     \* largest batch_size tried
MaxWorkers == 3       \* largest max_workers tried
MaxQueue == 1         \* largest max_queue_size tried
MaxRetry == 2         \* largest retry_attempts tried
MaxAttempts == 5      \* largest retry_attempts tried where the backoff is followed
MaxRuns == 2          \* most process_stream calls made on one BatchProcessor
MaxRuleLen == 4       \* longest rule string written lexeme by lexeme
MaxChain == 3         \* most tokens in a rule string built from tokens
MaxValues == 3        \* longest values_list passed to bulk_apply_pipe_rules
MaxRules == 3         \* longest rule list passed to bulk_apply_pipe_rules
MaxPairs == 2         \* most key:value pairs in a vlookup token
MaxIdLen == 2         \* longest template id and tenant id, in characters
MaxLoads == 3         \* most load_template calls made on one TemplateMapper

\* ------------------------------------------------------------- the state
VARIABLES
    config,            \* BatchConfig of this processor
    on_batch_complete, \* "none" | "sync" | "async": the callback argument
    mainpc,            \* position of process_stream
    stops_left,        \* stop-signals process_stream still has to put
    summary,           \* the dict process_stream returns
    prodpc,            \* position of _produce_batches
    batch_id,          \* _produce_batches: local batch_id
    current_batch,     \* _produce_batches: local current_batch
    rows_read,         \* rows the stream has yielded so far
    queue,             \* self._queue: the items waiting
    unfinished_tasks,  \* self._queue._unfinished_tasks (put minus task_done)
    is_running,        \* self._is_running
    results,           \* self._results
    total_processed,   \* self._total_processed
    total_errors,      \* self._total_errors
    wpc,               \* position of each _worker
    wbatch,            \* _worker: the batch_item it holds
    attempt,           \* _process_batch_with_retry: local attempt
    last_exception,    \* _process_batch_with_retry: local last_exception
    produced,          \* history: batches put on the queue, in order
    attempts,          \* history: processor_func calls made per batch id
    acks,              \* history: task_done calls made per batch id
    cb_raised,         \* history: batch ids whose callback raised
    cb_calls,          \* history: per batch id, the calls of the callback
    returned,          \* history: how the last processor_func call ended, per batch id
    started_after_stop, \* history: batch ids dequeued while not is_running
    processor_kind,    \* "coroutine" | "plain": what processor_func is
    abandoned,         \* threads still running a timed-out processor_func call, per batch id
    waits,             \* history: the delays slept between the attempts, per batch id
    run,               \* history: process_stream calls made
    first_summary,     \* history: the summary of the first call as it was returned
    fn,                \* engine: the function called ("transform" or "bulk_apply_pipe_rules")
    values_list,       \* bulk_apply_pipe_rules: values_list (the caller's list object)
    rule_strings,      \* bulk_apply_pipe_rules: rule_strings (the caller's object)
    dslpc,             \* position of bulk_apply_pipe_rules
    zipped,            \* bulk_apply_pipe_rules: the pairs zip() has still to yield
    bulk_results,      \* bulk_apply_pipe_rules: local results
    parsed,            \* the last _parse_dsl_rule call: rule, tokens, steps or error
    applied,           \* the last apply_transformations call: arguments, trace, outcome
    n_parsed,          \* history: _parse_dsl_rule calls made
    n_applied,         \* history: apply_transformations calls made
    dsl_ret,           \* what the called function returned or raised
    in_values,         \* history: values_list as passed by the caller
    in_rules,          \* history: rule_strings as passed by the caller
    template_cache,    \* TemplateMapper: self._template_cache, as its items
    load_ret,          \* the last load_template call: arguments and how it ended
    n_loads,           \* history: load_template calls made
    stored             \* history: the pairs whose load stored an entry since the last clear_cache

vars == <<config, on_batch_complete, mainpc, stops_left, summary, prodpc,
          batch_id, current_batch, rows_read, queue, unfinished_tasks,
          is_running, results, total_processed, total_errors, wpc, wbatch,
          attempt, last_exception, produced, attempts, acks, cb_raised, cb_calls,
          returned, started_after_stop, processor_kind, abandoned, waits,
          run, first_summary, fn, values_list, rule_strings,
          dslpc, zipped, bulk_results, parsed, applied, n_parsed, n_applied,
          dsl_ret, in_values, in_rules, template_cache, load_ret, n_loads,
          stored>>

\* The variables of the template mapper.
cachevars == <<template_cache, load_ret, n_loads, stored>>

\* The variables of the transformation engine.
dslvars == <<fn, values_list, rule_strings, dslpc, zipped, bulk_results,
             parsed, applied, n_parsed, n_applied, dsl_ret, in_values,
             in_rules>>

\* The variables of the batch processor.
batchvars == <<config, on_batch_complete, mainpc, stops_left, summary, prodpc,
               batch_id, current_batch, rows_read, queue, unfinished_tasks,
               is_running, results, total_processed, total_errors, wpc,
               wbatch, attempt, last_exception, produced, attempts, acks,
               cb_raised, cb_calls, returned, started_after_stop, processor_kind,
               abandoned, waits, run, first_summary>>

\* --------------------------------------------------------------- helpers
Workers == 0 .. (config.max_workers - 1)
BatchIds == 0 .. (MaxBatches - 1)

\* The stop-signal (None) and the "no item" value of a worker.
Sentinel == [id |-> -1, rows |-> <<>>]
NoBatch == [id |-> -2, rows |-> <<>>]

\* asyncio.Queue(maxsize): maxsize <= 0 means unbounded.
QueueMaxsize == IF config.backpressure_enabled THEN config.max_queue_size ELSE 0
QueueFull == QueueMaxsize > 0 /\ Len(queue) >= QueueMaxsize

\* A Python value found under a key of the returned dict.
Missing == [t |-> "missing", v |-> 0]
NonNumber == [t |-> "other", v |-> 0]
PyInt(n) == [t |-> "int", v |-> n]

\* dict.get(key, default)
DictGet(val, default) == IF val.t = "missing" THEN default ELSE val

NoErrors == <<>>
RowErrors == <<[error |-> "row", last |-> "none"]>>

\* What one call of processor_func under wait_for can end in, for n rows.
ProcessorOutcomes(n) ==
    {[kind |-> "raise", sc |-> Missing, ec |-> Missing, errors |-> "missing"],
     [kind |-> "timeout", sc |-> Missing, ec |-> Missing, errors |-> "missing"],
     [kind |-> "nondict", sc |-> Missing, ec |-> Missing, errors |-> "missing"]}
    \cup
    {[kind |-> "dict", sc |-> PyInt(0), ec |-> PyInt(n), errors |-> "list"],
     [kind |-> "dict", sc |-> PyInt(0), ec |-> Missing, errors |-> "missing"],
     [kind |-> "dict", sc |-> NonNumber, ec |-> Missing, errors |-> "missing"],
     [kind |-> "dict", sc |-> Missing, ec |-> NonNumber, errors |-> "missing"]}

\* No call of processor_func has ended yet.
NoOutcome == [kind |-> "none", sc |-> Missing, ec |-> Missing, errors |-> "missing"]

\* Mutant of ParseResult: a value without counts is taken as 0 successes.
ParseResult_ZeroDefault(b, o) ==
    IF o.kind = "dict"
    THEN [batch_id |-> b.id,
          success_count |-> DictGet(o.sc, PyInt(0)),
          error_count |-> DictGet(o.ec, PyInt(0)),
          errors |-> IF o.errors = "missing" THEN NoErrors ELSE RowErrors]
    ELSE [batch_id |-> b.id,
          success_count |-> PyInt(0),
          error_count |-> PyInt(0),
          errors |-> NoErrors]

\* Mutant of ParseResult: a returned value that is no dict counts every row
\* of the batch as an error.
ParseResult_NonDictFails(b, o) ==
    IF o.kind = "dict"
    THEN [batch_id |-> b.id,
          success_count |-> DictGet(o.sc, PyInt(Len(b.rows))),
          error_count |-> DictGet(o.ec, PyInt(0)),
          errors |-> IF o.errors = "missing" THEN NoErrors ELSE RowErrors]
    ELSE [batch_id |-> b.id,
          success_count |-> PyInt(0),
          error_count |-> PyInt(Len(b.rows)),
          errors |-> RowErrors]

\* Lines 250-269: the BatchResult built from a returned value.
ParseResult(b, o) ==
    IF o.kind = "dict"
    THEN [batch_id |-> b.id,
          success_count |-> DictGet(o.sc, PyInt(Len(b.rows))),
          error_count |-> DictGet(o.ec, PyInt(0)),
          errors |-> IF o.errors = "missing" THEN NoErrors ELSE RowErrors]
    ELSE [batch_id |-> b.id,
          success_count |-> PyInt(Len(b.rows)),
          error_count |-> PyInt(0),
          errors |-> NoErrors]

\* Lines 284-294: the BatchResult after all retries failed.
FailedResult(b, last) ==
    [batch_id |-> b.id,
     success_count |-> PyInt(0),
     error_count |-> PyInt(Len(b.rows)),
     errors |-> <<[error |-> "Batch failed after retries", last |-> last]>>]

\* Line 165: the while condition, evaluated on the given values.
LoopCheck(running, q) == IF running \/ q # <<>> THEN "get" ELSE "exit"

\* Line 234: range(1, retry_attempts + 1) is empty.
NoAttempts == config.retry_attempts < 1

\* Mutant of LastAttempt: the loop runs over range(1, retry_attempts + 2).
LastAttempt_OffByOne(a) == a >= config.retry_attempts + 1

\* Lines 234 and 281: attempt a is the last one of range(1, retry_attempts + 1).
LastAttempt(a) == a >= config.retry_attempts

\* Mutant of BatchFull: the test of line 133 written with > for >=.
BatchFull_Late(nb) == Len(nb) > config.batch_size

\* Line 133: the batch being built has reached batch_size.
BatchFull(nb) == Len(nb) >= config.batch_size

\* ------------------------------------------------ engine: values, strings
\* A Python value of the engine: None, a str or a list of str.  A str is the
\* sequence of its lexemes: a lexeme is one character, or an operation word
\* ("split", "uppercase", ...) standing for its letters, which no function
\* below looks into.
PyNone == [t |-> "none", s |-> <<>>, l |-> <<>>]
PyStr(s) == [t |-> "str", s |-> s, l |-> <<>>]
PyList(l) == [t |-> "list", s |-> <<>>, l |-> l]

\* s.startswith(p) and s[n:]
StartsWith(s, p) == Len(s) >= Len(p) /\ SubSeq(s, 1, Len(p)) = p
From(s, n) == SubSeq(s, n + 1, Len(s))

\* s.find(sep) counted from 1; 0 when sep does not occur.
Find(s, sep) ==
    LET hits == {i \in 1 .. (Len(s) - Len(sep) + 1) :
                    SubSeq(s, i, i + Len(sep) - 1) = sep}
    IN  IF hits = {} THEN 0 ELSE CHOOSE i \in hits : \A j \in hits : i <= j

\* s.split(sep) for a non-empty sep: the pieces between the occurrences of
\* sep, found left to right without overlap.
RECURSIVE PySplit(_, _)
PySplit(s, sep) ==
    LET i == Find(s, sep)
    IN  IF i = 0 THEN <<s>>
        ELSE <<SubSeq(s, 1, i - 1)>> \o PySplit(From(s, i + Len(sep) - 1), sep)

\* s.split(sep, 1)
PySplitOnce(s, sep) ==
    LET i == Find(s, sep)
    IN  IF i = 0 THEN <<s>>
        ELSE <<SubSeq(s, 1, i - 1), From(s, i + Len(sep) - 1)>>

\* new.join(list(s)) framed by new: what s.replace("", new) gives.
RECURSIVE Interleave(_, _)
Interleave(s, new) ==
    IF s = <<>> THEN new ELSE new \o <<Head(s)>> \o Interleave(Tail(s), new)

\* s.replace(old, new)
RECURSIVE PyReplace(_, _, _)
PyReplace(s, old, new) ==
    IF old = <<>> THEN Interleave(s, new)
    ELSE LET i == Find(s, old)
         IN  IF i = 0 THEN s
             ELSE SubSeq(s, 1, i - 1) \o new
                     \o PyReplace(From(s, i + Len(old) - 1), old, new)

\* delim.join(items)
RECURSIVE PyJoin(_, _)
PyJoin(delim, items) ==
    IF items = <<>> THEN <<>>
    ELSE IF Len(items) = 1 THEN Head(items)
    ELSE Head(items) \o delim \o PyJoin(delim, Tail(items))

\* s.lstrip(chars), s.rstrip(chars), s.strip(chars); Whitespace for None.
Whitespace == {" "}

RECURSIVE LStrip(_, _)
LStrip(s, chars) ==
    IF s # <<>> /\ Head(s) \in chars THEN LStrip(Tail(s), chars) ELSE s

RECURSIVE RStrip(_, _)
RStrip(s, chars) ==
    IF s # <<>> /\ s[Len(s)] \in chars
    THEN RStrip(SubSeq(s, 1, Len(s) - 1), chars) ELSE s

PyStrip(s, chars) == RStrip(LStrip(s, chars), chars)

\* s.split(): the runs of non-whitespace.
RECURSIVE PySplitWs(_)
PySplitWs(s) ==
    LET t == LStrip(s, Whitespace)
        i == Find(t, <<" ">>)
    IN  IF t = <<>> THEN <<>>
        ELSE IF i = 0 THEN <<t>>
        ELSE <<SubSeq(t, 1, i - 1)>> \o PySplitWs(From(t, i))

\* s.upper(), on the letters the values are made of.
UpperOf(c) == IF c = "a" THEN "A" ELSE IF c = "b" THEN "B" ELSE c
PyUpper(s) == [i \in 1 .. Len(s) |-> UpperOf(s[i])]

\* The characters of a str as a set (the chars argument of strip).
CharsOf(s) == {s[i] : i \in 1 .. Len(s)}

\* s.lower(), on the letters and words the keys and values are made of.
LowerOf(c) ==
    IF c = "A" THEN "a" ELSE IF c = "B" THEN "b"
    ELSE IF c \in {"TRUE", "True"} THEN "true"
    ELSE IF c \in {"FALSE", "False"} THEN "false"
    ELSE c
PyLower(s) == [i \in 1 .. Len(s) |-> LowerOf(s[i])]

\* The digits 0-9, which \d, str.isdigit, int and float all take; and the
\* lexeme "sup2", the character U+00B2 (superscript two), which is a digit
\* for str.isdigit but not for \d, int or float.
AsciiDigits == {"0", "1", "2", "5"}
OtherDigits == {"sup2"}

\* s.isdigit()
IsDigit(s) == s # <<>> /\ \A i \in 1 .. Len(s) : s[i] \in AsciiDigits \cup OtherDigits

\* re.match(r'^-?\d+\.\d+$', s)
LooksDecimal(s) ==
    LET u == IF s # <<>> /\ Head(s) = "-" THEN Tail(s) ELSE s
        dot == Find(u, <<".">>)
    IN  /\ dot > 1
        /\ dot < Len(u)
        /\ \A i \in 1 .. Len(u) : i # dot => u[i] \in AsciiDigits

\* Values of the types the vlookup coercion makes: bool, float and int, each
\* held as the lexemes of its repr.
PyBool(b) == [t |-> "bool", s |-> IF b THEN <<"True">> ELSE <<"False">>, l |-> <<>>]
PyFloat(repr) == [t |-> "float", s |-> repr, l |-> <<>>]
PyInteger(repr) == [t |-> "int", s |-> repr, l |-> <<>>]

\* Digits without their leading zeros / trailing zeros, one digit kept.
RECURSIVE DropLeadingZeros(_)
DropLeadingZeros(d) ==
    IF Len(d) > 1 /\ Head(d) = "0" THEN DropLeadingZeros(Tail(d)) ELSE d

RECURSIVE DropTrailingZeros(_)
DropTrailingZeros(d) ==
    IF Len(d) > 1 /\ d[Len(d)] = "0"
    THEN DropTrailingZeros(SubSeq(d, 1, Len(d) - 1)) ELSE d

\* float(s) for an s that LooksDecimal: the number, as its repr.
FloatOf(s) ==
    LET neg == Head(s) = "-"
        u == IF neg THEN Tail(s) ELSE s
        dot == Find(u, <<".">>)
    IN  PyFloat((IF neg THEN <<"-">> ELSE <<>>)
                \o DropLeadingZeros(SubSeq(u, 1, dot - 1)) \o <<".">>
                \o DropTrailingZeros(From(u, dot)))

\* int(s) for an s that IsDigit: the number, or the ValueError int raises on
\* a digit that is no decimal digit.
IntRaises(s) == \E i \in 1 .. Len(s) : s[i] \notin AsciiDigits
IntOf(s) == PyInteger(DropLeadingZeros(s))


\* ------------------------------------------------- engine: _parse_dsl_rule
\* A TransformationStep: name is the key of TRANSFORMS to call, params the
\* keyword arguments in the order of the function's signature (<<>> when the
\* step has no "params").
MkStep(name, params) == [name |-> name, params |-> params]

\* What the parser makes of one token: a step, or the ValueError it raises.
Parsed(step) == [err |-> "none", step |-> step]
ParseError(msg) == [err |-> msg, step |-> MkStep(<<>>, <<>>)]

\* Line 246: the separator of the steps and the marker it is replaced by.
StepSeparator == <<" ", "+", " ">>
SplitMarker == <<"|", ";", "|">>

\* Mutant of RuleTokens: the rule is cut at every "+".
RuleTokens_AtPlus(rule) == PySplit(rule, <<"+">>)

\* Line 246: rule.replace(' + ', '|;|').split('|;|')
RuleTokens(rule) ==
    PySplit(PyReplace(rule, StepSeparator, SplitMarker), SplitMarker)

\* Mutant of SplitDelimiter: the delimiter is taken as written after "split|".
SplitDelimiter_Verbatim(raw) == raw

\* Lines 255-271: the delimiter of a split token, raw being token[6:].
SplitDelimiter(raw) ==
    LET delim ==
            IF raw \in {<<"|", "|">>, <<"\\", "|">>} THEN <<"|">>
            ELSE IF StartsWith(raw, <<"|", "|", "|">>)
                 THEN (IF From(raw, 3) = <<>> THEN <<"|">> ELSE From(raw, 3))
            ELSE IF StartsWith(raw, <<"|", "|">>)
                 THEN (IF From(raw, 2) \in {<<>>, <<" ">>} THEN <<" ">>
                       ELSE From(raw, 2))
            ELSE IF StartsWith(raw, <<"\\", "|">>) THEN <<"|">> \o From(raw, 2)
            ELSE raw
    IN  IF delim # <<" ">> THEN PyStrip(delim, Whitespace) ELSE delim

\* Mutant of Coerce: every value is kept as the str it was written as.
Coerce_KeepStr(v) == [err |-> "none", value |-> PyStr(v)]

\* Lines 317-324: the type coercion of a trimmed mapping value.
Coerce(v) ==
    IF PyLower(v) = <<"true">> THEN [err |-> "none", value |-> PyBool(TRUE)]
    ELSE IF PyLower(v) = <<"false">> THEN [err |-> "none", value |-> PyBool(FALSE)]
    ELSE IF LooksDecimal(v) THEN [err |-> "none", value |-> FloatOf(v)]
    ELSE IF IsDigit(v)
         THEN (IF IntRaises(v)
               THEN [err |-> "invalid literal for int()", value |-> PyNone]
               ELSE [err |-> "none", value |-> IntOf(v)])
    ELSE [err |-> "none", value |-> PyStr(v)]

\* mapping[k] = v on a dict held as the sequence of its items.
MappingSet(mapping, k, v) ==
    IF \E i \in 1 .. Len(mapping) : mapping[i].k = k
    THEN [i \in 1 .. Len(mapping) |->
             IF mapping[i].k = k THEN [k |-> k, v |-> v] ELSE mapping[i]]
    ELSE Append(mapping, [k |-> k, v |-> v])

\* mapping.get(k, default)
MappingGet(mapping, k, default) ==
    IF \E i \in 1 .. Len(mapping) : mapping[i].k = k
    THEN (CHOOSE e \in {mapping[i] : i \in 1 .. Len(mapping)} : e.k = k).v
    ELSE default

\* Lines 313-326: the loop over the pairs of a vlookup token.  A pair
\* without ":" makes the unpacking of line 314 raise ValueError.
RECURSIVE VlookupMapping(_, _)
VlookupMapping(pairs, mapping) ==
    IF pairs = <<>> THEN [err |-> "none", mapping |-> mapping]
    ELSE LET kv == PySplitOnce(Head(pairs), <<":">>)
             c == Coerce(PyStrip(kv[2], Whitespace))
         IN  IF Len(kv) # 2
             THEN [err |-> "not enough values to unpack", mapping |-> <<>>]
             ELSE IF c.err # "none" THEN [err |-> c.err, mapping |-> <<>>]
             ELSE VlookupMapping(Tail(pairs),
                                 MappingSet(mapping,
                                            PyLower(PyStrip(kv[1], Whitespace)),
                                            c.value))

\* Lines 311-329: the step of a vlookup token, raw being token[8:].
VlookupStep(raw) ==
    LET r == VlookupMapping(PySplit(RStrip(raw, {"|"}), <<",">>), <<>>)
    IN  IF r.err # "none" THEN ParseError(r.err)
        ELSE Parsed(MkStep(<<"vlookup_map">>, <<r.mapping>>))

\* Lines 253-364: the step of one left-trimmed, non-empty token.  The
\* branches are tried in the order of the code; the last one takes the whole
\* token as the name of an operation without parameters.
ParseToken(token) ==
    IF StartsWith(token, <<"split", "|">>)
    THEN LET delim == SplitDelimiter(From(token, 2))
         IN  IF delim = <<>> THEN ParseError("split requires non-empty delimiter")
             ELSE Parsed(MkStep(<<"split">>, <<delim>>))
    ELSE IF StartsWith(token, <<"join", "|">>)
    THEN Parsed(MkStep(<<"join">>, <<From(token, 2)>>))
    ELSE IF StartsWith(token, <<"prefix", "|">>)
    THEN Parsed(MkStep(<<"prefix">>, <<From(token, 2)>>))
    ELSE IF StartsWith(token, <<"suffix", "|">>)
    THEN Parsed(MkStep(<<"suffix">>, <<From(token, 2)>>))
    ELSE IF StartsWith(token, <<"replace", "|">>)
    THEN LET parts == PySplitOnce(From(token, 2), <<"|">>)
         IN  IF Len(parts) = 2 THEN Parsed(MkStep(<<"replace">>, parts))
             ELSE ParseError("replace requires two parameters")
    ELSE IF StartsWith(token, <<"vlookup", "|">>)
    THEN VlookupStep(From(token, 2))
    ELSE IF StartsWith(token, <<"strip", "|">>)
    THEN Parsed(MkStep(<<"strip">>, <<PySplitOnce(token, <<"|">>)[2]>>))
    ELSE IF StartsWith(token, <<"set", "|">>)
    THEN Parsed(MkStep(<<"set">>, <<PySplitOnce(token, <<"|">>)[2]>>))
    ELSE IF token = <<"rejects">>
    THEN Parsed(MkStep(<<"rejects">>, <<>>))
    ELSE Parsed(MkStep(token, <<>>))

\* Mutant of AppendStep: the new step is put in front of the others.
AppendStep_InFront(steps, step) == <<step>> \o steps

\* steps.append(step)
AppendStep(steps, step) == Append(steps, step)

\* Lines 248-366: the loop over the tokens.  A token that is empty after
\* lstrip is skipped; the first ValueError ends the call.
RECURSIVE ParseLoop(_, _)
ParseLoop(tokens, steps) ==
    IF tokens = <<>> THEN [err |-> "none", steps |-> steps]
    ELSE LET token == LStrip(Head(tokens), Whitespace)
         IN  IF token = <<>> THEN ParseLoop(Tail(tokens), steps)
             ELSE LET r == ParseToken(token)
                  IN  IF r.err # "none" THEN [err |-> r.err, steps |-> <<>>]
                      ELSE ParseLoop(Tail(tokens), AppendStep(steps, r.step))

\* _parse_dsl_rule(rule): the tokens it cut the rule into, and the steps it
\* returned or the error it raised.
ParseDslRule(rule) ==
    LET tokens == RuleTokens(rule)
        r == ParseLoop(tokens, <<>>)
    IN  [rule |-> rule, tokens |-> tokens, err |-> r.err, steps |-> r.steps]

\* No _parse_dsl_rule call was made yet.
NotParsed == [rule |-> <<>>, tokens |-> <<>>, err |-> "none", steps |-> <<>>]

\* ------------------------------------------- engine: apply_transformations
\* The keys of TRANSFORMS that the rules of this model can name.
Registered ==
    {<<"uppercase">>, <<"strip">>, <<"split">>, <<"join">>, <<"replace">>,
     <<"prefix">>, <<"suffix">>, <<"set">>, <<"copy">>, <<"rejects">>,
     <<"if_empty">>, <<"vlookup_map">>}

\* The operation names the parser has a branch for (lines 253-359).
SpecialCased ==
    {<<"split">>, <<"join">>, <<"prefix">>, <<"suffix">>, <<"replace_regex">>,
     <<"replace">>, <<"vlookup">>, <<"addition">>, <<"subtraction">>,
     <<"multiplication">>, <<"division">>, <<"percentage">>, <<"strip">>,
     <<"set">>, <<"set_number">>, <<"zero_padding">>}

\* How a call func(v, **params) ends: it returns a value, raises RejectRow,
\* or raises another exception.
Returns(x) == [kind |-> "ok", value |-> x]
RaisesRejectRow == [kind |-> "reject", value |-> PyNone]
RaisesError == [kind |-> "error", value |-> PyNone]

\* Mutant of vlookup_map: the value is looked up as it is written.
vlookup_map_CaseSensitive(v, mapping) ==
    IF v.t = "str" /\ mapping # <<>> THEN MappingGet(mapping, v.s, v) ELSE v

\* operations.py, lines 205-209: mapping is None, or empty, when <<>>.
vlookup_map(v, mapping) ==
    IF v.t = "str" /\ mapping # <<>> THEN MappingGet(mapping, PyLower(v.s), v) ELSE v

\* advanced_operations.py, lines 556-560
if_empty(v, default) ==
    IF v.t = "none" \/ v = PyStr(<<>>) THEN PyStr(default) ELSE v

\* operations.py: the registered functions.  A function called without a
\* parameter that has no default raises TypeError before its body runs.
CallOp(name, v, params) ==
    CASE name = <<"uppercase">> ->
            Returns(IF v.t = "str" THEN PyStr(PyUpper(v.s)) ELSE v)
      [] name = <<"strip">> ->
            Returns(IF v.t # "str" THEN v
                    ELSE IF params = <<>> THEN PyStr(PyStrip(v.s, Whitespace))
                    ELSE PyStr(PyStrip(v.s, CharsOf(params[1]))))
      [] name = <<"split">> ->
            IF params = <<>> THEN RaisesError
            ELSE Returns(IF v.t # "str" THEN v
                         ELSE LET pieces == PySplit(v.s, params[1])
                              IN  PyList([i \in 1 .. Len(pieces) |-> PyStr(pieces[i])]))
      [] name = <<"join">> ->
            IF params = <<>> THEN RaisesError
            ELSE LET words == PySplitWs(v.s)
                     items == IF v.t = "str"
                              THEN [i \in 1 .. Len(words) |-> words[i]]
                              ELSE [i \in 1 .. Len(v.l) |-> v.l[i].s]
                 IN  Returns(IF v.t = "none" THEN v
                             ELSE PyStr(PyJoin(params[1], items)))
      [] name = <<"replace">> ->
            IF Len(params) < 2 THEN RaisesError
            ELSE Returns(IF v.t = "str"
                         THEN PyStr(PyReplace(v.s, params[1], params[2]))
                         ELSE v)
      [] name = <<"prefix">> ->
            LET prefix_str == IF params = <<>> THEN <<"-">> ELSE params[1]
            IN  Returns(IF v.t = "list"
                        THEN PyList([i \in 1 .. Len(v.l) |-> PyStr(prefix_str \o v.l[i].s)])
                        ELSE IF v.t = "str" THEN PyStr(prefix_str \o v.s)
                        ELSE v)
      [] name = <<"suffix">> ->
            LET suffix_str == IF params = <<>> THEN <<"_">> ELSE params[1]
            IN  Returns(IF v.t = "list"
                        THEN PyList([i \in 1 .. Len(v.l) |-> PyStr(v.l[i].s \o suffix_str)])
                        ELSE IF v.t = "str" THEN PyStr(v.s \o suffix_str)
                        ELSE v)
      [] name = <<"set">> ->
            IF params = <<>> THEN RaisesError ELSE Returns(PyStr(params[1]))
      [] name = <<"copy">> -> Returns(v)
      [] name = <<"rejects">> -> RaisesRejectRow
      [] name = <<"if_empty">> ->
            Returns(if_empty(v, IF params = <<>> THEN <<>> ELSE params[1]))
      [] name = <<"vlookup_map">> ->
            Returns(vlookup_map(v, IF params = <<>> THEN <<>> ELSE params[1]))
      [] OTHER -> RaisesError

\* Mutant of IsRegistered: any name passes the test of line 137.
IsRegistered_Any(name) == TRUE

\* Line 137: func_name in TRANSFORMS
IsRegistered(name) == name \in Registered

\* Mutant of IsReject: RejectRow is handled like any other exception.
IsReject_Never(r) == FALSE

\* Line 145: the call raised RejectRow.
IsReject(r) == r.kind = "reject"

\* Mutant of AfterError: the step that raised leaves None behind.
AfterError_None(v) == PyNone

\* Lines 147-150: the value the loop goes on with after a caught exception.
AfterError(v) == v

\* One entry of the trace of an apply_transformations call: the step that
\* was called, the value it was called on, how it ended and the value the
\* loop held after it.
TraceEntry(step, before, kind, after) ==
    [step |-> step, before |-> before, kind |-> kind, after |-> after]

\* Lines 133-152: the loop over the steps, from value v with trace so far.
RECURSIVE ApplyLoop(_, _, _)
ApplyLoop(v, steps, trace) ==
    IF steps = <<>>
    THEN [raised |-> "none", value |-> v, was_rejected |-> FALSE, trace |-> trace]
    ELSE LET step == Head(steps)
         IN  IF ~IsRegistered(step.name)
             THEN [raised |-> "Unknown transformation", value |-> PyNone,
                   was_rejected |-> FALSE, trace |-> trace]
             ELSE LET r == CallOp(step.name, v, step.params)
                  IN  IF IsReject(r)
                      THEN [raised |-> "none", value |-> PyNone, was_rejected |-> TRUE,
                            trace |-> Append(trace, TraceEntry(step, v, "reject", PyNone))]
                      ELSE IF r.kind # "ok"
                      THEN ApplyLoop(AfterError(v), Tail(steps),
                                     Append(trace, TraceEntry(step, v, "error", AfterError(v))))
                      ELSE ApplyLoop(r.value, Tail(steps),
                                     Append(trace, TraceEntry(step, v, "ok", r.value)))

\* apply_transformations(val, steps): the arguments, the calls made, and
\* the (value, was_rejected) returned or the ValueError raised.
ApplyTransformations(val, steps) ==
    LET r == ApplyLoop(val, steps, <<>>)
    IN  [val |-> val, steps |-> steps, raised |-> r.raised, value |-> r.value,
         was_rejected |-> r.was_rejected, trace |-> r.trace]

\* No apply_transformations call was made yet.
NotApplied ==
    [val |-> PyNone, steps |-> <<>>, raised |-> "none", value |-> PyNone,
     was_rejected |-> FALSE, trace |-> <<>>]


\* ------------------------------------------------------------------ Init
Configs ==
    [batch_size : 1 .. MaxBatchSize,
     max_workers : 1 .. MaxWorkers,
     max_queue_size : 1 .. MaxQueue,
     retry_attempts : 0 .. MaxRetry,
     backpressure_enabled : BOOLEAN]

\* The dict process_stream returns, batch_results being the content of the
\* list it refers to.
Summary(tp, te, rs) ==
    [total_processed |-> tp, total_errors |-> te, total_batches |-> Len(rs),
     batch_results |-> rs]
NoSummary == Summary(0, 0, <<>>)

\* BatchProcessor.__init__: a processor with the given config on which
\* process_stream was not called.
ProcessorInit ==
    /\ on_batch_complete \in {"none", "sync", "async"}
    /\ mainpc = "new"
    /\ stops_left = 0
    /\ summary = [total_processed |-> 0, total_errors |-> 0, total_batches |-> 0]
    /\ prodpc = "new"
    /\ batch_id = 0
    /\ current_batch = <<>>
    /\ rows_read = 0
    /\ queue = <<>>
    /\ unfinished_tasks = 0
    /\ is_running = FALSE
    /\ results = <<>>
    /\ total_processed = 0
    /\ total_errors = 0
    /\ wpc = [w \in Workers |-> "new"]
    /\ wbatch = [w \in Workers |-> NoBatch]
    /\ attempt = [w \in Workers |-> 0]
    /\ last_exception = [w \in Workers |-> "None"]
    /\ produced = <<>>
    /\ attempts = [i \in BatchIds |-> 0]
    /\ acks = [i \in BatchIds |-> 0]
    /\ cb_raised = {}
    /\ cb_calls = [i \in BatchIds |-> <<>>]
    /\ returned = [i \in BatchIds |-> NoOutcome]
    /\ started_after_stop = {}
    /\ abandoned = [i \in BatchIds |-> 0]
    /\ waits = [i \in BatchIds |-> <<>>]
    /\ run = 0
    /\ first_summary = NoSummary

\* No function of the transformation engine was called.
NoCall ==
    /\ fn = "none"
    /\ values_list = PyNone
    /\ rule_strings = PyNone
    /\ dslpc = "idle"
    /\ zipped = <<>>
    /\ bulk_results = <<>>
    /\ parsed = NotParsed
    /\ applied = NotApplied
    /\ n_parsed = 0
    /\ n_applied = 0
    /\ dsl_ret = [raised |-> "none", value |-> PyNone]
    /\ in_values = PyNone
    /\ in_rules = PyNone

\* A load_template call: its arguments, whether it was answered from the
\* cache, and the template it returned or the error it raised.
LoadRet(s, t, hit, raised, template) ==
    [template_id |-> s, saas_edge_id |-> t, hit |-> hit, raised |-> raised,
     template |-> template]
NoTemplate == [id |-> <<>>, owner |-> <<>>]
NotLoaded == LoadRet(<<>>, <<>>, FALSE, "none", NoTemplate)

\* TemplateMapper.__init__: an empty cache.
MapperInit ==
    /\ template_cache = <<>>
    /\ load_ret = NotLoaded
    /\ n_loads = 0
    /\ stored = {}

\* The runs of Spec: the processing function is a coroutine function.
Init ==
    /\ config \in Configs
    /\ ProcessorInit
    /\ processor_kind = "coroutine"
    /\ NoCall
    /\ MapperInit

\* --------------------------------------------------------- queue helpers
\* Mutant of JoinDone: process_stream waits for the queue to be empty, not
\* for the dequeued batches to be acknowledged.
JoinDone_QueueEmpty == queue = <<>>

\* Queue.join returns: every item put so far was acknowledged by task_done.
JoinDone == unfinished_tasks = 0

\* Queue.put_nowait: append the item and count it as unfinished.
PutItem(item) ==
    /\ queue' = Append(queue, item)
    /\ unfinished_tasks' = unfinished_tasks + 1

Min(a, b) == IF a < b THEN a ELSE b

\* Lines 101-105: clear is_running, then put stop-signals.  Queue.put does
\* not suspend while the queue has room, so the loop runs on until the queue
\* is full or n signals are in.
PutStops(n) ==
    LET room == IF QueueMaxsize > 0 THEN QueueMaxsize - Len(queue) ELSE n
        k == Min(n, room)
    IN  /\ queue' = queue \o [i \in 1 .. k |-> Sentinel]
        /\ unfinished_tasks' = unfinished_tasks + k
        /\ stops_left' = n - k
        /\ mainpc' = IF n - k = 0 THEN "gather" ELSE "put_stop"

\* ---------------------------------------------------------- process_stream
\* Lines 79-97 and 163-171: reset the run state, create the workers and the
\* producer.  process_stream suspends at line 97; the event loop runs the
\* new tasks in creation order, so every worker passes its first while test
\* (is_running is true) and waits in queue.get before the producer starts.
ProcessStream ==
    /\ mainpc = "new"
    /\ run' = run + 1
    /\ is_running' = TRUE
    /\ results' = <<>>
    /\ total_processed' = 0
    /\ total_errors' = 0
    /\ wpc' = [w \in Workers |-> "get"]
    /\ prodpc' = "run"
    /\ mainpc' = "await_producer"
    /\ UNCHANGED <<cachevars, dslvars, processor_kind, abandoned, waits, first_summary,
                   config, returned, on_batch_complete, stops_left, summary, batch_id,
                   current_batch, rows_read, queue, unfinished_tasks, wbatch,
                   attempt, last_exception, produced, attempts, acks,
                   cb_raised, cb_calls, started_after_stop>>

\* Lines 97-103: the producer is done; join returns at once when nothing is
\* unfinished, and then shutdown starts in the same run of the task.
MainProducerDone ==
    /\ mainpc = "await_producer"
    /\ prodpc = "done"
    /\ IF JoinDone
       THEN /\ is_running' = FALSE
            /\ PutStops(config.max_workers)
       ELSE /\ mainpc' = "join"
            /\ UNCHANGED <<is_running, queue, unfinished_tasks, stops_left>>
    /\ UNCHANGED <<cachevars, dslvars, processor_kind, abandoned, waits, first_summary, run,
                   config, returned, on_batch_complete, summary, prodpc, batch_id,
                   current_batch, rows_read, results, total_processed,
                   total_errors, wpc, wbatch, attempt, last_exception,
                   produced, attempts, acks, cb_raised, cb_calls, started_after_stop>>

\* Lines 98-103: join wakes once every queued item was acknowledged.
MainJoined ==
    /\ mainpc = "join"
    /\ JoinDone
    /\ is_running' = FALSE
    /\ PutStops(config.max_workers)
    /\ UNCHANGED <<cachevars, dslvars, processor_kind, abandoned, waits, first_summary, run,
                   config, returned, on_batch_complete, summary, prodpc, batch_id,
                   current_batch, rows_read, results, total_processed,
                   total_errors, wpc, wbatch, attempt, last_exception,
                   produced, attempts, acks, cb_raised, cb_calls, started_after_stop>>

\* Lines 102-103: a put that was suspended on the full queue resumes.
MainPutStop ==
    /\ mainpc = "put_stop"
    /\ ~QueueFull
    /\ PutStops(stops_left)
    /\ UNCHANGED <<cachevars, dslvars, processor_kind, abandoned, waits, first_summary, run,
                   config, returned, on_batch_complete, summary, prodpc, batch_id,
                   current_batch, rows_read, is_running, results,
                   total_processed, total_errors, wpc, wbatch, attempt,
                   last_exception, produced, attempts, acks, cb_raised, cb_calls,
                   started_after_stop>>

\* Lines 105-117: every worker task has ended; build the summary.
MainGather ==
    /\ mainpc = "gather"
    /\ \A w \in Workers : wpc[w] = "exit"
    /\ summary' = [total_processed |-> total_processed,
                   total_errors |-> total_errors,
                   total_batches |-> Len(results)]
    /\ first_summary' = IF run = 1 THEN Summary(total_processed, total_errors, results)
                        ELSE first_summary
    /\ mainpc' = "done"
    /\ UNCHANGED <<cachevars, dslvars, processor_kind, abandoned, waits, run,
                   config, returned, on_batch_complete, stops_left, prodpc, batch_id,
                   current_batch, rows_read, queue, unfinished_tasks,
                   is_running, results, total_processed, total_errors, wpc,
                   wbatch, attempt, last_exception, produced, attempts, acks,
                   cb_raised, cb_calls, started_after_stop>>

\* -------------------------------------------------------- _produce_batches
\* Lines 130-138: the stream yields a row; a full batch is put on the queue,
\* or the producer is suspended in put when the queue is full.
ProduceRow ==
    /\ prodpc = "run"
    /\ batch_id < MaxBatches
    /\ rows_read' = rows_read + 1
    /\ LET nb == Append(current_batch, rows_read + 1)
       IN  IF BatchFull(nb)
           THEN IF QueueFull
                THEN /\ current_batch' = nb
                     /\ prodpc' = "put"
                     /\ UNCHANGED <<queue, unfinished_tasks, produced, batch_id>>
                ELSE /\ PutItem([id |-> batch_id, rows |-> nb])
                     /\ produced' = Append(produced, [id |-> batch_id, rows |-> nb])
                     /\ batch_id' = batch_id + 1
                     /\ current_batch' = <<>>
                     /\ UNCHANGED prodpc
           ELSE /\ current_batch' = nb
                /\ UNCHANGED <<queue, unfinished_tasks, produced, batch_id, prodpc>>
    /\ UNCHANGED <<cachevars, dslvars, processor_kind, abandoned, waits, first_summary, run,
                   config, returned, on_batch_complete, mainpc, stops_left, summary,
                   is_running, results, total_processed, total_errors, wpc,
                   wbatch, attempt, last_exception, attempts, acks, cb_raised, cb_calls,
                   started_after_stop>>

\* Lines 135-138: the suspended put of a full batch resumes.
ProducerPut ==
    /\ prodpc = "put"
    /\ ~QueueFull
    /\ PutItem([id |-> batch_id, rows |-> current_batch])
    /\ produced' = Append(produced, [id |-> batch_id, rows |-> current_batch])
    /\ batch_id' = batch_id + 1
    /\ current_batch' = <<>>
    /\ prodpc' = "run"
    /\ UNCHANGED <<cachevars, dslvars, processor_kind, abandoned, waits, first_summary, run,
                   config, returned, on_batch_complete, mainpc, stops_left, summary,
                   rows_read, is_running, results, total_processed,
                   total_errors, wpc, wbatch, attempt, last_exception,
                   attempts, acks, cb_raised, cb_calls, started_after_stop>>

\* Lines 140-143: the stream is exhausted; the remaining rows are queued.
StreamEnd ==
    /\ prodpc = "run"
    /\ IF current_batch # <<>>
       THEN IF QueueFull
            THEN /\ prodpc' = "put_final"
                 /\ UNCHANGED <<queue, unfinished_tasks, produced>>
            ELSE /\ PutItem([id |-> batch_id, rows |-> current_batch])
                 /\ produced' = Append(produced, [id |-> batch_id, rows |-> current_batch])
                 /\ prodpc' = "done"
       ELSE /\ prodpc' = "done"
            /\ UNCHANGED <<queue, unfinished_tasks, produced>>
    /\ UNCHANGED <<cachevars, dslvars, processor_kind, abandoned, waits, first_summary, run,
                   config, returned, on_batch_complete, mainpc, stops_left, summary,
                   batch_id, current_batch, rows_read, is_running, results,
                   total_processed, total_errors, wpc, wbatch, attempt,
                   last_exception, attempts, acks, cb_raised, cb_calls,
                   started_after_stop>>

\* Line 142: the suspended put of the final batch resumes.
ProducerPutFinal ==
    /\ prodpc = "put_final"
    /\ ~QueueFull
    /\ PutItem([id |-> batch_id, rows |-> current_batch])
    /\ produced' = Append(produced, [id |-> batch_id, rows |-> current_batch])
    /\ prodpc' = "done"
    /\ UNCHANGED <<cachevars, dslvars, processor_kind, abandoned, waits, first_summary, run,
                   config, returned, on_batch_complete, mainpc, stops_left, summary,
                   batch_id, current_batch, rows_read, is_running, results,
                   total_processed, total_errors, wpc, wbatch, attempt,
                   last_exception, attempts, acks, cb_raised, cb_calls,
                   started_after_stop>>

\* ----------------------------------------------------------------- _worker
\* Queue.task_done for the batch a worker holds.
TaskDone(b) ==
    /\ unfinished_tasks' = unfinished_tasks - 1
    /\ acks' = [acks EXCEPT ![b.id] = @ + 1]

\* Mutant of AfterCallback: a raise of the callback is not caught and ends
\* the worker task before task_done.
AfterCallback_Propagates(w, b, raised, q) ==
    /\ cb_raised' = IF raised THEN cb_raised \cup {b.id} ELSE cb_raised
    /\ IF raised
       THEN /\ wpc' = [wpc EXCEPT ![w] = "exit"]
            /\ UNCHANGED <<unfinished_tasks, acks>>
       ELSE /\ TaskDone(b)
            /\ wpc' = [wpc EXCEPT ![w] = LoopCheck(is_running, q)]
    /\ wbatch' = [wbatch EXCEPT ![w] = NoBatch]

\* Lines 191-199: the callback has returned or raised; a raise is caught and
\* logged, the batch is acknowledged and the while condition is evaluated
\* against queue q.
AfterCallback(w, b, raised, q) ==
    /\ cb_raised' = IF raised THEN cb_raised \cup {b.id} ELSE cb_raised
    /\ TaskDone(b)
    /\ wpc' = [wpc EXCEPT ![w] = LoopCheck(is_running, q)]
    /\ wbatch' = [wbatch EXCEPT ![w] = NoBatch]

\* Mutant of Invokes: the callback is called for a batch whose result could
\* not be recorded as well.
Invokes_Unrecorded(recorded, kind) == on_batch_complete = kind

\* Lines 190-197: the callback is called inside the try block, after line
\* 187, so only when lines 185-187 have not raised, and only when there is
\* one; kind says whether it is a coroutine function.
Invokes(recorded, kind) == recorded /\ on_batch_complete = kind

\* What a call of the callback finds when it starts: the number of results
\* recorded (rs), the totals (tp, te), the totals of before line 185, and
\* the acknowledgements of its batch; st is how the call stands.
CallbackCall(b, rs, tp, te, st) ==
    [at |-> Len(rs), tp |-> tp, te |-> te, tp0 |-> total_processed,
     te0 |-> total_errors, acked |-> acks[b.id], state |-> st]

\* Lines 184-199 and 207-209: add res to the totals, append it, run the
\* callback, acknowledge the batch and evaluate the while condition against
\* queue q.  A count that is not a number makes += raise TypeError, which
\* the handler of line 207 answers with task_done alone.  An async callback
\* may suspend the worker before line 199.
Complete(w, b, res, q) ==
    LET sc == res.success_count
        ec == res.error_count
        recorded == sc.t = "int" /\ ec.t = "int"
    IN  /\ total_processed' = IF sc.t = "int" THEN total_processed + sc.v
                              ELSE total_processed
        /\ total_errors' = IF recorded THEN total_errors + ec.v ELSE total_errors
        /\ results' = IF recorded
                      THEN Append(results, [batch_id |-> res.batch_id,
                                            success_count |-> sc.v,
                                            error_count |-> ec.v,
                                            errors |-> res.errors])
                      ELSE results
        /\ attempt' = [attempt EXCEPT ![w] = 0]
        /\ last_exception' = [last_exception EXCEPT ![w] = "None"]
        /\ IF Invokes(recorded, "async")
           THEN /\ wpc' = [wpc EXCEPT ![w] = "callback"]
                /\ wbatch' = [wbatch EXCEPT ![w] = b]
                /\ cb_calls' = [cb_calls EXCEPT ![b.id] =
                                   Append(@, CallbackCall(b, results', total_processed',
                                                          total_errors', "running"))]
                /\ UNCHANGED <<unfinished_tasks, acks, cb_raised>>
           ELSE IF Invokes(recorded, "sync")
           THEN \E raised \in BOOLEAN :
                    /\ cb_calls' = [cb_calls EXCEPT ![b.id] =
                                       Append(@, CallbackCall(b, results', total_processed',
                                                              total_errors',
                                                              IF raised THEN "raised"
                                                              ELSE "returned"))]
                    /\ AfterCallback(w, b, raised, q)
           ELSE /\ AfterCallback(w, b, FALSE, q)
                /\ UNCHANGED cb_calls

\* Mutant of CanGet: a worker dequeues only while no other worker is in the
\* retry loop (batches processed under one lock).
CanGet_Serial(w) ==
    /\ wpc[w] = "get"
    /\ queue # <<>>
    /\ \A v \in Workers \ {w} : wpc[v] \notin {"proc", "sleep"}

\* Lines 168-171: the worker waits in queue.get and an item is there for it.
CanGet(w) == wpc[w] = "get" /\ queue # <<>>

\* Lines 168-182: queue.get returns an item.  A stop-signal is acknowledged
\* and ends the loop; a batch enters the retry loop, which with no attempt
\* to make falls through to the failed result at once.
WorkerGet(w) ==
    /\ CanGet(w)
    /\ LET item == Head(queue)
       IN  /\ queue' = Tail(queue)
           /\ IF item = Sentinel
              THEN /\ unfinished_tasks' = unfinished_tasks - 1
                   /\ wpc' = [wpc EXCEPT ![w] = "exit"]
                   /\ UNCHANGED <<results, total_processed, total_errors,
                                  wbatch, attempt, last_exception, acks,
                                  cb_raised, cb_calls, started_after_stop>>
              ELSE /\ started_after_stop' =
                          IF is_running THEN started_after_stop
                          ELSE started_after_stop \cup {item.id}
                   /\ IF NoAttempts
                      THEN Complete(w, item, FailedResult(item, "None"), Tail(queue))
                      ELSE /\ wpc' = [wpc EXCEPT ![w] = "proc"]
                           /\ wbatch' = [wbatch EXCEPT ![w] = item]
                           /\ attempt' = [attempt EXCEPT ![w] = 1]
                           /\ UNCHANGED <<results, total_processed,
                                          total_errors, last_exception,
                                          unfinished_tasks, acks, cb_raised, cb_calls>>
    /\ UNCHANGED <<cachevars, dslvars, processor_kind, abandoned, waits, first_summary, run,
                   config, returned, on_batch_complete, mainpc, stops_left, summary,
                   prodpc, batch_id, current_batch, rows_read, is_running,
                   produced, attempts>>

\* Lines 205-206 and 165: the 1-second poll times out on the empty queue and
\* the while condition is evaluated again.
WorkerTimeout(w) ==
    /\ wpc[w] = "get"
    /\ queue = <<>>
    /\ wpc' = [wpc EXCEPT ![w] = LoopCheck(is_running, queue)]
    /\ UNCHANGED <<cachevars, dslvars, processor_kind, abandoned, waits, first_summary, run,
                   config, returned, on_batch_complete, mainpc, stops_left, summary,
                   prodpc, batch_id, current_batch, rows_read, queue,
                   unfinished_tasks, is_running, results, total_processed,
                   total_errors, wbatch, attempt, last_exception, produced,
                   attempts, acks, cb_raised, cb_calls, started_after_stop>>

\* Mutant of Backoff: the delay doubles without a cap.
Backoff_Uncapped(a) == 2 ^ a

\* Line 282: min(2 ** attempt, 10)
Backoff(a) == Min(2 ^ a, 10)

\* Mutant of StillRunning: a timeout ends the call in the thread as well.
StillRunning_Never(o) == FALSE

\* Lines 238-246: wait_for cancels what it awaits when the timeout expires.
\* A coroutine is cancelled and has ended when wait_for raises; the future
\* of asyncio.to_thread is cancelled, but the thread goes on running
\* processor_func to its end.
StillRunning(o) == o.kind = "timeout" /\ processor_kind = "plain"

\* Lines 234-294: one call of processor_func ends.  A raise or a timeout
\* leads to the backoff sleep, or after the last attempt to the failed
\* result; a returned value is parsed into the result.
WorkerAttempt(w) ==
    /\ wpc[w] = "proc"
    /\ LET b == wbatch[w]
       IN  /\ attempts' = [attempts EXCEPT ![b.id] = @ + 1]
           /\ \E o \in ProcessorOutcomes(Len(b.rows)) :
               /\ returned' = [returned EXCEPT ![b.id] = o]
               /\ abandoned' = IF StillRunning(o)
                               THEN [abandoned EXCEPT ![b.id] = @ + 1]
                               ELSE abandoned
               /\ IF o.kind \in {"raise", "timeout"}
                 THEN IF ~LastAttempt(attempt[w])
                      THEN /\ wpc' = [wpc EXCEPT ![w] = "sleep"]
                           /\ last_exception' = [last_exception EXCEPT ![w] = o.kind]
                           /\ waits' = [waits EXCEPT ![b.id] = Append(@, Backoff(attempt[w]))]
                           /\ UNCHANGED <<results, total_processed,
                                          total_errors, wbatch, attempt,
                                          unfinished_tasks, acks, cb_raised, cb_calls>>
                      ELSE /\ Complete(w, b, FailedResult(b, o.kind), queue)
                           /\ UNCHANGED waits
                 ELSE /\ Complete(w, b, ParseResult(b, o), queue)
                      /\ UNCHANGED waits
    /\ UNCHANGED <<cachevars, dslvars, processor_kind, first_summary, run,
                   config, on_batch_complete, mainpc, stops_left, summary,
                   prodpc, batch_id, current_batch, rows_read, queue,
                   is_running, produced, started_after_stop>>

\* Lines 281-282 and 234: the backoff sleep ends and the next attempt starts.
WorkerBackoff(w) ==
    /\ wpc[w] = "sleep"
    /\ attempt' = [attempt EXCEPT ![w] = @ + 1]
    /\ wpc' = [wpc EXCEPT ![w] = "proc"]
    /\ UNCHANGED <<cachevars, dslvars, processor_kind, abandoned, waits, first_summary, run,
                   config, returned, on_batch_complete, mainpc, stops_left, summary,
                   prodpc, batch_id, current_batch, rows_read, queue,
                   unfinished_tasks, is_running, results, total_processed,
                   total_errors, wbatch, last_exception, produced, attempts,
                   acks, cb_raised, cb_calls, started_after_stop>>

\* Lines 192-199: the awaited callback returns or raises; either way the
\* batch is acknowledged and the while condition is evaluated.
WorkerCallbackDone(w) ==
    /\ wpc[w] = "callback"
    /\ \E raised \in BOOLEAN :
           /\ AfterCallback(w, wbatch[w], raised, queue)
           /\ cb_calls' = [cb_calls EXCEPT ![wbatch[w].id][Len(cb_calls[wbatch[w].id])].state =
                              IF raised THEN "raised" ELSE "returned"]
    /\ UNCHANGED <<cachevars, dslvars, processor_kind, abandoned, waits, first_summary, run,
                   config, returned, on_batch_complete, mainpc, stops_left, summary,
                   prodpc, batch_id, current_batch, rows_read, queue,
                   is_running, results, total_processed, total_errors,
                   attempt, last_exception, produced, attempts,
                   started_after_stop>>

\* ---------------------------------------------------------- specification
Next ==
    \/ ProcessStream
    \/ MainProducerDone
    \/ MainJoined
    \/ MainPutStop
    \/ MainGather
    \/ ProduceRow
    \/ ProducerPut
    \/ StreamEnd
    \/ ProducerPutFinal
    \/ \E w \in Workers : WorkerGet(w)
    \/ \E w \in Workers : WorkerTimeout(w)
    \/ \E w \in Workers : WorkerAttempt(w)
    \/ \E w \in Workers : WorkerBackoff(w)
    \/ \E w \in Workers : WorkerCallbackDone(w)

Spec == Init /\ [][Next]_vars

TypeOK ==
    /\ mainpc \in {"new", "await_producer", "join", "put_stop", "gather", "done",
                   "raised"}
    /\ prodpc \in {"new", "run", "put", "put_final", "done", "failed"}
    /\ \A w \in Workers : wpc[w] \in {"new", "get", "proc", "sleep", "callback", "exit"}
    /\ unfinished_tasks >= 0

\* ------------------------------------------- runs that fail or are repeated
\* An abandoned thread reaches the end of processor_func.
ThreadEnd(id) ==
    /\ abandoned[id] > 0
    /\ abandoned' = [abandoned EXCEPT ![id] = @ - 1]
    /\ UNCHANGED <<cachevars, dslvars, config, on_batch_complete, mainpc,
                   stops_left, summary, prodpc, batch_id, current_batch,
                   rows_read, queue, unfinished_tasks, is_running, results,
                   total_processed, total_errors, wpc, wbatch, attempt,
                   last_exception, produced, attempts, acks, cb_raised, cb_calls,
                   returned, started_after_stop, processor_kind, waits, run,
                   first_summary>>

\* Lines 130 and 145-147: the stream raises where a row was expected; the
\* handler logs and raises again, which ends the producer task.
StreamRaises ==
    /\ prodpc = "run"
    /\ prodpc' = "failed"
    /\ UNCHANGED <<cachevars, dslvars, config, on_batch_complete, mainpc,
                   stops_left, summary, batch_id, current_batch, rows_read,
                   queue, unfinished_tasks, is_running, results,
                   total_processed, total_errors, wpc, wbatch, attempt,
                   last_exception, produced, attempts, acks, cb_raised, cb_calls,
                   returned, started_after_stop, processor_kind, abandoned,
                   waits, run, first_summary>>

\* Line 97: awaiting the producer task raises its exception, which leaves
\* process_stream at once; lines 98-117 are not run.
MainProducerFailed ==
    /\ mainpc = "await_producer"
    /\ prodpc = "failed"
    /\ mainpc' = "raised"
    /\ UNCHANGED <<cachevars, dslvars, config, on_batch_complete, stops_left,
                   summary, prodpc, batch_id, current_batch, rows_read, queue,
                   unfinished_tasks, is_running, results, total_processed,
                   total_errors, wpc, wbatch, attempt, last_exception,
                   produced, attempts, acks, cb_raised, cb_calls, returned,
                   started_after_stop, processor_kind, abandoned, waits, run,
                   first_summary>>

\* Lines 79-97, on a processor whose process_stream has returned: the run
\* state is reset (self._results is cleared, the list object stays), new
\* workers and a new producer are created for the new stream.  The queue is
\* the one made by __init__ and keeps what it holds.  The histories start
\* again with the new run.
ProcessStreamAgain ==
    /\ mainpc = "done"
    /\ run < MaxRuns
    /\ run' = run + 1
    /\ is_running' = TRUE
    /\ results' = <<>>
    /\ total_processed' = 0
    /\ total_errors' = 0
    /\ wpc' = [w \in Workers |-> "get"]
    /\ wbatch' = [w \in Workers |-> NoBatch]
    /\ attempt' = [w \in Workers |-> 0]
    /\ last_exception' = [w \in Workers |-> "None"]
    /\ prodpc' = "run"
    /\ batch_id' = 0
    /\ current_batch' = <<>>
    /\ rows_read' = 0
    /\ mainpc' = "await_producer"
    /\ produced' = <<>>
    /\ attempts' = [i \in BatchIds |-> 0]
    /\ acks' = [i \in BatchIds |-> 0]
    /\ cb_raised' = {}
    /\ cb_calls' = [i \in BatchIds |-> <<>>]
    /\ returned' = [i \in BatchIds |-> NoOutcome]
    /\ started_after_stop' = {}
    /\ waits' = [i \in BatchIds |-> <<>>]
    /\ UNCHANGED <<cachevars, dslvars, config, on_batch_complete, stops_left,
                   summary, queue, unfinished_tasks, processor_kind, abandoned,
                   first_summary>>

\* Two workers on a queue of one batch, full batches of MaxBatchSize rows.
RunConfigs(retries) ==
    [batch_size : {MaxBatchSize},
     max_workers : {2},
     max_queue_size : {1},
     retry_attempts : retries,
     backpressure_enabled : {TRUE}]

\* Runs with up to MaxAttempts attempts per batch, so that the delays reach
\* the cap of line 281; a coroutine processor and a coroutine callback.
BackoffInit ==
    /\ config \in RunConfigs(0 .. MaxAttempts)
    /\ ProcessorInit
    /\ on_batch_complete = "async"
    /\ processor_kind = "coroutine"
    /\ NoCall
    /\ MapperInit

BackoffSpec == BackoffInit /\ [][Next]_vars

\* Runs in which the stream may raise and in which processor_func may be a
\* plain function, whose thread outlives a timed-out attempt.
FaultInit ==
    /\ config \in RunConfigs(0 .. MaxRetry)
    /\ ProcessorInit
    /\ on_batch_complete = "async"
    /\ processor_kind \in {"coroutine", "plain"}
    /\ NoCall
    /\ MapperInit

FaultNext ==
    \/ Next
    \/ \E id \in BatchIds : ThreadEnd(id)
    \/ StreamRaises
    \/ MainProducerFailed

FaultSpec == FaultInit /\ [][FaultNext]_vars

\* One processor used for MaxRuns streams in turn: batches of one row, one
\* attempt per batch, no callback.  The steps are the ones of Next that such
\* a configuration can take, and the second call of process_stream.
RerunConfigs ==
    [batch_size : {1},
     max_workers : {2},
     max_queue_size : {1},
     retry_attempts : {1},
     backpressure_enabled : {TRUE}]

RerunInit ==
    /\ config \in RerunConfigs
    /\ ProcessorInit
    /\ on_batch_complete = "none"
    /\ processor_kind = "coroutine"
    /\ NoCall
    /\ MapperInit

RerunNext ==
    \/ ProcessStream
    \/ MainProducerDone
    \/ MainJoined
    \/ MainPutStop
    \/ MainGather
    \/ ProduceRow
    \/ ProducerPut
    \/ StreamEnd
    \/ \E w \in Workers : WorkerGet(w)
    \/ \E w \in Workers : WorkerTimeout(w)
    \/ \E w \in Workers : WorkerAttempt(w)
    \/ ProcessStreamAgain

RerunSpec == RerunInit /\ [][RerunNext]_vars

\* ------------------------------------------- engine: bulk_apply_pipe_rules
\* [x] * n
Replicate(x, n) == [i \in 1 .. n |-> x]

\* zip(values, rules): the pairs up to the end of the shorter list.
Zip(values, rules) ==
    [i \in 1 .. Min(Len(values), Len(rules)) |-> <<values[i], rules[i]>>]

\* Line 222: "not rule" is false for a non-empty str.
Truthy(rule) == rule.t = "str" /\ rule.s # <<>>

\* The function returned x / raised ValueError(msg).
NotReturned == [raised |-> "none", value |-> PyNone]
ReturnValue(x) == [raised |-> "none", value |-> x]
RaiseValueError(msg) == [raised |-> msg, value |-> PyNone]

\* Mutant of BroadcastRule: a one-element rule list is not replicated.
BroadcastRule_Never(nr, nv) == FALSE

\* Line 210: a one-element rule list is replicated over several values.
BroadcastRule(nr, nv) == nr = 1 /\ nv > 1

\* Mutant of LengthMismatch: lists of different lengths are zipped as they are.
LengthMismatch_Ignored(nr, nv) == FALSE

\* Line 214: reached when neither list is replicated.
LengthMismatch(nr, nv) == nr # nv

\* Lines 203-221 (and line 170 for transform, which passes [value] and its
\* rule string): check the arguments and broadcast.  A str rule is
\* replicated into a new list; a list is extended in place by *=, so the
\* caller's list object changes.  Ends in the zip of the two lists, or in
\* the ValueError.
BulkApply ==
    /\ dslpc = "call"
    /\ IF values_list.t # "list"
       THEN /\ dsl_ret' = RaiseValueError("values_list must be a list")
            /\ dslpc' = "raised"
            /\ UNCHANGED <<values_list, rule_strings, zipped>>
       ELSE IF rule_strings.t = "str"
       THEN /\ zipped' = Zip(values_list.l, Replicate(rule_strings, Len(values_list.l)))
            /\ dslpc' = "zip"
            /\ UNCHANGED <<values_list, rule_strings, dsl_ret>>
       ELSE IF rule_strings.t = "list"
       THEN LET nr == Len(rule_strings.l)
                nv == Len(values_list.l)
            IN  IF BroadcastRule(nr, nv)
                THEN /\ rule_strings' = PyList(Replicate(rule_strings.l[1], nv))
                     /\ zipped' = Zip(values_list.l, Replicate(rule_strings.l[1], nv))
                     /\ dslpc' = "zip"
                     /\ UNCHANGED <<values_list, dsl_ret>>
                ELSE IF nv = 1 /\ nr > 1
                THEN /\ values_list' = PyList(Replicate(values_list.l[1], nr))
                     /\ zipped' = Zip(Replicate(values_list.l[1], nr), rule_strings.l)
                     /\ dslpc' = "zip"
                     /\ UNCHANGED <<rule_strings, dsl_ret>>
                ELSE IF LengthMismatch(nr, nv)
                THEN /\ dsl_ret' = RaiseValueError("Length mismatch")
                     /\ dslpc' = "raised"
                     /\ UNCHANGED <<values_list, rule_strings, zipped>>
                ELSE /\ zipped' = Zip(values_list.l, rule_strings.l)
                     /\ dslpc' = "zip"
                     /\ UNCHANGED <<values_list, rule_strings, dsl_ret>>
       ELSE /\ dsl_ret' = RaiseValueError("rule_strings must be str or list[str]")
            /\ dslpc' = "raised"
            /\ UNCHANGED <<values_list, rule_strings, zipped>>
    /\ UNCHANGED <<cachevars, batchvars, fn, bulk_results, parsed, applied, n_parsed,
                   n_applied, in_values, in_rules>>

\* Mutant of SkipsRule: only None is passed through, "" is parsed.
SkipsRule_NoneOnly(rule) == rule.t = "none"

\* Line 222: not rule
SkipsRule(rule) == ~Truthy(rule)

\* Lines 222-228: the body of the loop for one pair.  A falsy rule passes
\* the value through without a call; any other rule is parsed and executed.
\* Gives the calls made, the value for results.append and the ValueError
\* that came out of the parser or the executor, if any.
PairOutcome(val, rule) ==
    IF SkipsRule(rule)
    THEN [n_parsed |-> 0, parsed |-> NotParsed, n_applied |-> 0,
          applied |-> NotApplied, raised |-> "none", value |-> val]
    ELSE LET p == ParseDslRule(rule.s)
             a == ApplyTransformations(val, p.steps)
         IN  IF p.err # "none"
             THEN [n_parsed |-> 1, parsed |-> p, n_applied |-> 0,
                   applied |-> NotApplied, raised |-> p.err, value |-> PyNone]
             ELSE [n_parsed |-> 1, parsed |-> p, n_applied |-> 1,
                   applied |-> a, raised |-> a.raised, value |-> a.value]

\* Lines 221-228: one turn of the loop; an error raised by the parser or
\* the executor ends the call.
NextPair ==
    /\ dslpc = "zip"
    /\ zipped # <<>>
    /\ \E o \in {PairOutcome(Head(zipped)[1], Head(zipped)[2])} :
           /\ zipped' = Tail(zipped)
           /\ n_parsed' = n_parsed + o.n_parsed
           /\ n_applied' = n_applied + o.n_applied
           /\ parsed' = IF o.n_parsed > 0 THEN o.parsed ELSE parsed
           /\ applied' = IF o.n_applied > 0 THEN o.applied ELSE applied
           /\ IF o.raised # "none"
              THEN /\ dsl_ret' = RaiseValueError(o.raised)
                   /\ dslpc' = "raised"
                   /\ UNCHANGED bulk_results
              ELSE /\ bulk_results' = Append(bulk_results, o.value)
                   /\ UNCHANGED <<dslpc, dsl_ret>>
    /\ UNCHANGED <<cachevars, batchvars, fn, values_list, rule_strings, in_values, in_rules>>

\* Line 230, and line 171 for transform: results[0] if results else None.
BulkReturn ==
    /\ dslpc = "zip"
    /\ zipped = <<>>
    /\ dsl_ret' = IF fn = "transform"
                  THEN ReturnValue(IF bulk_results # <<>> THEN bulk_results[1] ELSE PyNone)
                  ELSE ReturnValue(PyList(bulk_results))
    /\ dslpc' = "returned"
    /\ UNCHANGED <<cachevars, batchvars, fn, values_list, rule_strings, zipped, bulk_results,
                   parsed, applied, n_parsed, n_applied, in_values, in_rules>>

\* ------------------------------------------------ engine: the calls tried
\* All sequences over S of length lo .. hi.
SeqsOf(S, lo, hi) == UNION {[1 .. n -> S] : n \in lo .. hi}

\* The values passed to transform.
SampleValues ==
    {PyStr(<<" ", "a", " ", "b", "|", "a">>),
     PyStr(<<"b", ";", "a">>),
     PyList(<<PyStr(<<"a">>), PyStr(<<"b">>)>>),
     PyNone}

\* Rule strings written lexeme by lexeme.
RawLexemes == {" ", "+", "|", ";", "\\", "split", "a"}
RawRules == SeqsOf(RawLexemes, 0, MaxRuleLen)

\* Rule strings built by joining tokens with " + ": operations with and
\* without parameters (one of them replacing ";" by "a"), one that rejects,
\* one called without its parameters, one that is not registered, and one
\* that the parser has no branch for, written with an argument.
ChainTokens ==
    {<<"uppercase">>, <<"strip">>, <<"rejects">>, <<"replace">>, <<"nosuch">>,
     <<"set", "|", "b">>, <<"split", "|", "|", "|">>, <<"join", "|", "+">>,
     <<"replace", "|", ";", "|", "a">>, <<"if_empty", "|", "b">>}
ChainRules == {PyJoin(StepSeparator, c) : c \in SeqsOf(ChainTokens, 1, MaxChain)}

\* The values and the rules passed to bulk_apply_pipe_rules in lists.
BulkValues == {PyStr(<<" ", "a", " ", "b", "|", "a">>), PyStr(<<"b", ";", "a">>)}
BulkRules == {<<>>, <<"uppercase">>, <<"rejects">>, <<"nosuch">>, <<"split", "|">>}
BulkRuleItems == {PyStr(r) : r \in BulkRules} \cup {PyNone}

\* transform(value, rule_string) with a rule string, or None for it.
TransformCalls ==
    [fn : {"transform"},
     values_list : {PyList(<<v>>) : v \in SampleValues},
     rule_strings : {PyStr(r) : r \in RawRules \cup ChainRules} \cup {PyNone}]

\* transform of an empty and of a non-empty value by if_empty, written with
\* and without an argument.
IfEmptyCalls ==
    [fn : {"transform"},
     values_list : {PyList(<<v>>) : v \in {PyStr(<<>>), PyNone, PyStr(<<"a">>)}},
     rule_strings : {PyStr(<<"if_empty">>), PyStr(<<"if_empty", "|", "b">>)}]

\* The keys and the values a vlookup token is written with: keys in both
\* cases and with a blank around them; values that read as an integer, a
\* float, a boolean, a negative integer, a word, and the digit U+00B2.
VlookupKeys == {<<"a">>, <<" ", "A", " ">>, <<"b">>}
VlookupWritten ==
    {<<"1">>, <<"0", "2">>, <<"2", ".", "5", "0">>, <<"-", "1", ".", "5">>,
     <<"TRUE">>, <<"false">>, <<"-", "1">>, <<" ", "x">>, <<"sup2">>}
VlookupPairs ==
    {k \o <<":">> \o v : k \in VlookupKeys, v \in VlookupWritten} \cup {<<"a">>}
VlookupRules ==
    {<<"vlookup", "|">> \o PyJoin(<<",">>, ps) : ps \in SeqsOf(VlookupPairs, 1, MaxPairs)}
    \cup {<<"vlookup", "|", "b", ":", "1", "|">>, <<"vlookup", "|">>}

\* transform by a vlookup rule of a str that matches a key in another case,
\* of one that matches no key, and of a value that is no str.
VlookupCalls ==
    [fn : {"transform"},
     values_list : {PyList(<<v>>) : v \in {PyStr(<<"A">>), PyStr(<<" ", "b">>),
                                            PyList(<<PyStr(<<"a">>)>>)}},
     rule_strings : {PyStr(r) : r \in VlookupRules}]

\* bulk_apply_pipe_rules(values_list, rule_strings) with a list of values and
\* one rule string or a list of rules.
BulkCalls ==
    [fn : {"bulk_apply_pipe_rules"},
     values_list : {PyList(l) : l \in SeqsOf(BulkValues, 0, MaxValues)} \cup {PyNone},
     rule_strings : {PyStr(r) : r \in BulkRules}
                    \cup {PyList(l) : l \in SeqsOf(BulkRuleItems, 0, MaxRules)}]

\* A call of transform or bulk_apply_pipe_rules is about to run; no batch
\* processor is in use.
DslInit ==
    /\ config = [batch_size |-> 1, max_workers |-> 1, max_queue_size |-> 1,
                 retry_attempts |-> 0, backpressure_enabled |-> FALSE]
    /\ ProcessorInit
    /\ on_batch_complete = "none"
    /\ processor_kind = "coroutine"
    /\ \E c \in TransformCalls \cup IfEmptyCalls \cup VlookupCalls \cup BulkCalls :
          /\ fn = c.fn
          /\ values_list = c.values_list
          /\ rule_strings = c.rule_strings
          /\ in_values = c.values_list
          /\ in_rules = c.rule_strings
    /\ dslpc = "call"
    /\ zipped = <<>>
    /\ bulk_results = <<>>
    /\ parsed = NotParsed
    /\ applied = NotApplied
    /\ n_parsed = 0
    /\ n_applied = 0
    /\ dsl_ret = NotReturned
    /\ MapperInit

DslNext == BulkApply \/ NextPair \/ BulkReturn

DslSpec == DslInit /\ [][DslNext]_vars

\* The position of the call, and the result list growing with the loop.
DslTypeOK ==
    /\ dslpc \in {"call", "zip", "returned", "raised"}
    /\ (dslpc = "raised") <=> (dsl_ret.raised # "none")
    /\ dslpc = "zip" => Len(bulk_results) + Len(zipped) = Len(values_list.l)

\* ------------------------------------------- template_mapper: the cache
\* Mutant of CacheKey: the key is the pair itself.
CacheKey_Pair(s, t) == <<t, s>>

\* Line 47: cache_key = f"{saas_edge_id}:{template_id}"
CacheKey(s, t) == t \o <<":">> \o s

\* cache_key in self._template_cache
Cached(key) == \E i \in 1 .. Len(template_cache) : template_cache[i].k = key

\* Lines 54-63: the ChannelTemplate a load for template s of tenant t
\* builds: a new object holding the id it was asked for.
NewTemplate(s, t) == [id |-> s, owner |-> t]

\* Lines 54-60: how fetching the template data ends.  Without a db_client
\* the mock data are there for every id; _fetch_from_db raises
\* NotImplementedError as it stands, and may return a row or nothing once it
\* is implemented.
FetchOutcomes == {"data", "nothing", "raises"}

\* Lines 47-66: load_template(template_id, saas_edge_id) as one call.  A
\* cached key is answered from the cache; otherwise the data are fetched,
\* and only a template that was parsed is stored.
LoadTemplate(s, t) ==
    /\ n_loads < MaxLoads
    /\ n_loads' = n_loads + 1
    /\ LET cache_key == CacheKey(s, t)
       IN  IF Cached(cache_key)
           THEN /\ load_ret' = LoadRet(s, t, TRUE, "none",
                                       MappingGet(template_cache, cache_key, NoTemplate))
                /\ UNCHANGED <<template_cache, stored>>
           ELSE \E data \in FetchOutcomes :
                   IF data = "raises"
                   THEN /\ load_ret' = LoadRet(s, t, FALSE, "NotImplementedError", NoTemplate)
                        /\ UNCHANGED <<template_cache, stored>>
                   ELSE IF data = "nothing"
                   THEN /\ load_ret' = LoadRet(s, t, FALSE, "Template not found", NoTemplate)
                        /\ UNCHANGED <<template_cache, stored>>
                   ELSE /\ template_cache' =
                               MappingSet(template_cache, cache_key, NewTemplate(s, t))
                        /\ stored' = stored \cup {<<t, s>>}
                        /\ load_ret' = LoadRet(s, t, FALSE, "none", NewTemplate(s, t))
    /\ UNCHANGED <<batchvars, dslvars>>

\* Lines 268-270: clear_cache()
ClearCache ==
    /\ template_cache' = <<>>
    /\ stored' = {}
    /\ UNCHANGED <<batchvars, dslvars, load_ret, n_loads>>

\* The ids tried, for templates and for tenants alike.
IdChars == {"a", ":"}
Ids == SeqsOf(IdChars, 1, MaxIdLen)

\* A new TemplateMapper; no batch processor and no engine call in use.
CacheInit ==
    /\ config = [batch_size |-> 1, max_workers |-> 1, max_queue_size |-> 1,
                 retry_attempts |-> 0, backpressure_enabled |-> FALSE]
    /\ ProcessorInit
    /\ on_batch_complete = "none"
    /\ processor_kind = "coroutine"
    /\ NoCall
    /\ MapperInit

CacheNext ==
    \/ \E s \in Ids, t \in Ids : LoadTemplate(s, t)
    \/ ClearCache

CacheSpec == CacheInit /\ [][CacheNext]_vars

\* ------------------------------------------------- vocabulary of the claims
RECURSIVE SumSuccess(_)
SumSuccess(rs) ==
    IF rs = <<>> THEN 0 ELSE Head(rs).success_count + SumSuccess(Tail(rs))

RECURSIVE SumErrors(_)
SumErrors(rs) ==
    IF rs = <<>> THEN 0 ELSE Head(rs).error_count + SumErrors(Tail(rs))

\* Ids of the batches the producer has put on the queue.
ProducedIds == {produced[i].id : i \in 1 .. Len(produced)}

\* Rows of the produced batch with this id (ids count from 0 in queue order).
BatchRows(id) == produced[id + 1].rows

\* Positions in self._results that hold a result for this batch id.
ResultsFor(id) == {j \in 1 .. Len(results) : results[j].batch_id = id}

\* process_stream has set is_running false and started sending stop-signals.
ShutdownBegun == mainpc \in {"put_stop", "gather", "done"}

AllAcknowledged == \A id \in ProducedIds : acks[id] = 1

\* C1: when process_stream has returned, every batch id the producer queued
\* appears in batch_results exactly once, and nothing else appears there.
C1_EachBatchOnce ==
    mainpc = "done" =>
        /\ \A id \in ProducedIds : Cardinality(ResultsFor(id)) = 1
        /\ \A j \in 1 .. Len(results) : results[j].batch_id \in ProducedIds

\* C2: process_stream always returns: as long as it has not, some task can
\* still take a step that changes the state (no state is stuck short of done).
C2_Terminates == mainpc = "done" \/ ENABLED <<Next>>_vars

\* C3: once the producer is done with N rows and batch_size k, it has queued
\* ceil(N/k) batches with ids 0, 1, ... in order, each but the last of k rows,
\* the last of 1..k rows, holding the rows in input order; N = 0 queues none.
C3_Partition ==
    prodpc = "done" =>
        LET N == rows_read
            k == config.batch_size
            nb == Len(produced)
        IN  /\ nb = (N + k - 1) \div k
            /\ \A i \in 1 .. nb :
                  /\ produced[i].id = i - 1
                  /\ Len(produced[i].rows) = IF i < nb THEN k ELSE N - k * (nb - 1)
                  /\ Len(produced[i].rows) \in 1 .. k
                  /\ \A j \in 1 .. Len(produced[i].rows) :
                        produced[i].rows[j] = k * (i - 1) + j

\* A run whose stream ended on a partial last batch behind a full one.
C3_Witness ==
    /\ prodpc = "done"
    /\ Len(produced) = 2
    /\ Len(produced[1].rows) = 2
    /\ Len(produced[2].rows) = 1

\* C4 as claimed: when process_stream has returned over N rows, the results'
\* success_count + error_count add up to N, and so do the summary's totals.
\* Stated on the runs that recorded every batch once, so that what refutes
\* it is the counts themselves and not a batch missing from the results.
C4_SumEqualsN ==
    (mainpc = "done" /\ \A id \in ProducedIds : Cardinality(ResultsFor(id)) = 1) =>
        /\ SumSuccess(results) + SumErrors(results) = rows_read
        /\ summary.total_processed + summary.total_errors = rows_read

\* The value a processor_func call ended in accounts for each of n rows once:
\* it failed for good, was no dict, or was a dict whose counts (with the
\* defaults of lines 252-253) are integers adding up to n.
Accounted(o, n) ==
    \/ o.kind \in {"none", "raise", "timeout", "nondict"}
    \/ /\ o.kind = "dict"
       /\ DictGet(o.sc, PyInt(n)).t = "int"
       /\ DictGet(o.ec, PyInt(0)).t = "int"
       /\ DictGet(o.sc, PyInt(n)).v + DictGet(o.ec, PyInt(0)).v = n

AllAccounted ==
    \A id \in ProducedIds : Accounted(returned[id], Len(BatchRows(id)))

\* C4 amended: the sums equal N in every returned run in which each value the
\* processing function returned accounts for each row of its batch once.
C4_SumEqualsNWhenAccounted ==
    (mainpc = "done" /\ AllAccounted) =>
        /\ SumSuccess(results) + SumErrors(results) = rows_read
        /\ summary.total_processed + summary.total_errors = rows_read

\* A returned run with a batch that succeeded and a batch that failed for good.
C4_Witness ==
    /\ mainpc = "done"
    /\ AllAccounted
    /\ Len(produced) = 2
    /\ summary.total_processed > 0
    /\ \E id \in ProducedIds : returned[id].kind = "timeout"

\* C5: with backpressure and max_queue_size >= 1 the queue never holds more
\* than max_queue_size items, and no batch is dropped: when process_stream has
\* returned, every batch the producer queued was dequeued, acknowledged and
\* recorded.
C5_Backpressure ==
    /\ (config.backpressure_enabled /\ config.max_queue_size >= 1)
          => Len(queue) <= config.max_queue_size
    /\ mainpc = "done" =>
          \A id \in ProducedIds : acks[id] = 1 /\ ResultsFor(id) # {}

ExpectedResult(id) ==
    LET b == [id |-> id, rows |-> BatchRows(id)]
        o == returned[id]
        r == IF o.kind \in {"raise", "timeout"} THEN FailedResult(b, o.kind)
             ELSE IF o.kind = "none" THEN FailedResult(b, "None")
             ELSE ParseResult(b, o)
    IN  [batch_id |-> id,
         success_count |-> r.success_count.v,
         error_count |-> r.error_count.v,
         errors |-> r.errors]

\* C7: a batch is never attempted more than retry_attempts times, and a batch
\* given up after a raise or a timeout was attempted exactly retry_attempts
\* times and has one result: 0 successes, all its rows as errors, and the
\* single synthetic error entry naming the last failure.
C7_RetryExhausted ==
    \A id \in ProducedIds :
        /\ attempts[id] <= config.retry_attempts
        /\ (acks[id] = 1 /\ returned[id].kind \in {"none", "raise", "timeout"}) =>
              /\ attempts[id] = config.retry_attempts
              /\ Cardinality(ResultsFor(id)) = 1
              /\ \A j \in ResultsFor(id) :
                    /\ results[j].success_count = 0
                    /\ results[j].error_count = Len(BatchRows(id))
                    /\ Len(results[j].errors) = 1
                    /\ results[j].errors[1].error = "Batch failed after retries"
                    /\ results[j].errors[1].last =
                          (IF returned[id].kind = "none" THEN "None"
                           ELSE returned[id].kind)

\* A batch of two rows given up after its second attempt timed out.
C7_Witness ==
    \E id \in ProducedIds :
        /\ config.retry_attempts = 2
        /\ acks[id] = 1
        /\ attempts[id] = 2
        /\ returned[id].kind = "timeout"
        /\ Len(BatchRows(id)) = 2

C9_CallbackErrorContained ==
    /\ \A id \in cb_raised :
          /\ Cardinality(ResultsFor(id)) = 1
          /\ acks[id] = 1
          /\ \A j \in ResultsFor(id) : results[j] = ExpectedResult(id)
    /\ (cb_raised # {} /\ ~ShutdownBegun) => \A w \in Workers : wpc[w] # "exit"
    /\ (cb_raised # {} /\ mainpc = "done") => summary.total_batches = Len(results)

\* The only worker went on to finish batch 1 after the callback of batch 0
\* had raised.
C9_Witness ==
    /\ config.max_workers = 1
    /\ 0 \in cb_raised
    /\ acks[1] = 1
    /\ Cardinality(ResultsFor(0)) = 1

\* C10: at every point of a run the running totals equal the sums over the
\* results recorded so far.
C10_TotalsMatchResults ==
    /\ total_processed = SumSuccess(results)
    /\ total_errors = SumErrors(results)

\* C11: a batch whose processing function returned a value that is no dict
\* has, from that attempt on, exactly one result with success_count equal to
\* its row count, error_count 0 and no errors; it is acknowledged by the same
\* step unless an async callback is pending, and no worker holds it for
\* another attempt.
C11_NonDictIsFullSuccess ==
    \A id \in ProducedIds :
        returned[id].kind = "nondict" =>
            /\ attempts[id] \in 1 .. config.retry_attempts
            /\ Cardinality(ResultsFor(id)) = 1
            /\ \A j \in ResultsFor(id) :
                  /\ results[j].success_count = Len(BatchRows(id))
                  /\ results[j].error_count = 0
                  /\ results[j].errors = <<>>
            /\ \A w \in Workers :
                  wbatch[w].id = id => wpc[w] = "callback"
            /\ \A i \in 1 .. Len(queue) : queue[i].id # id

\* A batch of two rows whose first call raised and whose second call
\* returned None, recorded and acknowledged.
C11_Witness ==
    \E id \in ProducedIds :
        /\ returned[id].kind = "nondict"
        /\ attempts[id] = 2
        /\ acks[id] = 1
        /\ Len(BatchRows(id)) = 2

\* ------------------------------------- vocabulary of the engine's claims
\* The tokens the parser acts on: each raw token left-trimmed, the empty
\* ones dropped.
RECURSIVE TrimDrop(_)
TrimDrop(tokens) ==
    IF tokens = <<>> THEN <<>>
    ELSE LET token == LStrip(Head(tokens), Whitespace)
         IN  IF token = <<>> THEN TrimDrop(Tail(tokens))
             ELSE <<token>> \o TrimDrop(Tail(tokens))

\* Indices of the steps that name `rejects`, and of those that name no
\* registered operation.
RejectSteps(steps) == {i \in 1 .. Len(steps) : steps[i].name = <<"rejects">>}
UnknownSteps(steps) == {i \in 1 .. Len(steps) : steps[i].name \notin Registered}

\* Step i is reached: no step before it rejects or is unknown.
Reached(steps, i) ==
    \A j \in 1 .. (i - 1) : j \notin RejectSteps(steps) \cup UnknownSteps(steps)

\* An apply_transformations call was made and `applied` describes it.
WasApplied == n_applied > 0
WasParsed == n_parsed > 0

\* C12: in every apply_transformations call, a `rejects` step that is reached
\* is the last step called, whatever follows it, and the call returns
\* (None, True); and a call returns was_rejected = True only if the last
\* step it called is a `rejects` step.
C12_RejectStopsChain ==
    WasApplied =>
        /\ \A i \in RejectSteps(applied.steps) :
              Reached(applied.steps, i) =>
                  /\ Len(applied.trace) = i
                  /\ applied.trace[i].step = applied.steps[i]
                  /\ applied.raised = "none"
                  /\ applied.value = PyNone
                  /\ applied.was_rejected
        /\ applied.was_rejected =>
              /\ applied.trace # <<>>
              /\ Len(applied.trace) \in RejectSteps(applied.steps)
              /\ applied.value = PyNone

\* A chain of three steps whose first step changed the value, whose second
\* step is `rejects` and whose third step is a registered operation.
C12_Witness ==
    /\ WasApplied
    /\ Len(applied.steps) = 3
    /\ applied.steps[2].name = <<"rejects">>
    /\ applied.steps[3].name = <<"set">>
    /\ applied.was_rejected
    /\ applied.trace[1].after # applied.trace[1].before
    /\ dslpc = "returned"
    /\ dsl_ret.value = PyNone

\* C13: in every apply_transformations call, a registered operation that
\* raises something other than RejectRow leaves the value as it was, the
\* loop goes on to the next step with that value, and the exception does
\* not come out of the call: a call whose steps are all registered never
\* raises, and one that ends on such a step returns the value unchanged.
C13_FailSoft ==
    WasApplied =>
        /\ \A i \in 1 .. Len(applied.trace) :
              LET e == applied.trace[i]
              IN  /\ e.step = applied.steps[i]
                  /\ e.before = (IF i = 1 THEN applied.val ELSE applied.trace[i - 1].after)
                  /\ (e.kind = "error") <=>
                        (CallOp(e.step.name, e.before, e.step.params).kind = "error")
                  /\ e.kind = "error" =>
                        /\ e.after = e.before
                        /\ (i < Len(applied.steps) /\ IsRegistered(applied.steps[i + 1].name))
                              => Len(applied.trace) > i
                        /\ i = Len(applied.steps) =>
                              /\ applied.raised = "none"
                              /\ ~applied.was_rejected
                              /\ applied.value = e.before
        /\ UnknownSteps(applied.steps) = {} => applied.raised = "none"

\* A chain of three steps: the first changed the value, the second raised,
\* the third changed the value the first had left.
C13_Witness ==
    /\ WasApplied
    /\ Len(applied.trace) = 3
    /\ applied.trace[1].after # applied.trace[1].before
    /\ applied.trace[2].kind = "error"
    /\ applied.trace[3].kind = "ok"
    /\ applied.trace[3].after # applied.trace[3].before
    /\ dslpc = "returned"

\* The operation name a token starts with: the text before its first "|".
TokenName(token) == PySplitOnce(token, <<"|">>)[1]

\* C14: the parser raises only on tokens that start with a name it has a
\* branch for, and returns for every token that names neither such a name
\* nor a registered operation a step named by the whole token; the
\* executor raises "Unknown transformation" exactly when it reaches a step
\* whose name is not registered, having called only the steps before it, and
\* the call of bulk_apply_pipe_rules or transform ends with that error.
C14_UnknownAtExecution ==
    /\ WasParsed =>
          LET toks == TrimDrop(parsed.tokens)
          IN  /\ parsed.err # "none" =>
                    \E i \in 1 .. Len(toks) : TokenName(toks[i]) \in SpecialCased
              /\ parsed.err = "none" =>
                    /\ Len(parsed.steps) = Len(toks)
                    /\ \A i \in 1 .. Len(toks) :
                          TokenName(toks[i]) \notin Registered \cup SpecialCased =>
                              /\ parsed.steps[i].name = toks[i]
                              /\ parsed.steps[i].name \notin Registered
    /\ WasApplied =>
          /\ \A i \in UnknownSteps(applied.steps) :
                Reached(applied.steps, i) =>
                    /\ applied.raised = "Unknown transformation"
                    /\ Len(applied.trace) = i - 1
                    /\ dslpc = "raised"
                    /\ dsl_ret = RaiseValueError("Unknown transformation")
          /\ applied.raised # "none" =>
                \E i \in UnknownSteps(applied.steps) : Reached(applied.steps, i)

\* An unknown name between two registered operations: parsed into a step,
\* and raised on after the first step was called.
C14_Witness ==
    /\ WasParsed
    /\ parsed.err = "none"
    /\ WasApplied
    /\ Len(applied.steps) = 3
    /\ applied.steps[2].name = <<"nosuch">>
    /\ applied.steps[3].name = <<"uppercase">>
    /\ Len(applied.trace) = 1
    /\ applied.raised = "Unknown transformation"
    /\ dslpc = "raised"

\* C15: the tokens the parser acts on are the pieces of the rule string
\* between the occurrences of " + ", left-trimmed, the empty ones dropped;
\* nothing else in the rule separates two steps.
C15_TokensAtSeparatorOnly ==
    WasParsed =>
        TrimDrop(parsed.tokens) = TrimDrop(PySplit(parsed.rule, StepSeparator))

\* transform applied token by token: each token as a rule of its own, on
\* the value the token before it returned.
RECURSIVE ApplyTokens(_, _)
ApplyTokens(v, toks) ==
    IF toks = <<>> THEN v
    ELSE ApplyTokens(PairOutcome(v, PyStr(Head(toks))).value, Tail(toks))

Transform(value, rule) ==
    IF rule.t # "str"
    THEN RaiseValueError("rule_strings must be str or list[str]")
    ELSE LET o == PairOutcome(value, rule)
         IN  IF o.raised # "none" THEN RaiseValueError(o.raised)
             ELSE ReturnValue(o.value)

\* Every transform call of the model ends as Transform says.
TransformAgrees ==
    (fn = "transform" /\ dslpc \in {"returned", "raised"}) =>
        dsl_ret = Transform(in_values.l[1], in_rules)

\* A bulk_apply_pipe_rules call on a list of values; it has ended.
IsBulk == fn = "bulk_apply_pipe_rules" /\ in_values.t = "list"
Ended == dslpc \in {"returned", "raised"}

\* The call ended as the element-wise transform of vals by rules does: with
\* the list of the values transform returns, or with the error of the first
\* pair on which transform raises.
Aligned(vals, rules) ==
    LET n == Len(vals)
        raising == {i \in 1 .. n : Transform(vals[i], rules[i]).raised # "none"}
        first == CHOOSE i \in raising : \A j \in raising : i <= j
    IN  IF raising = {}
        THEN dsl_ret = ReturnValue(PyList([i \in 1 .. n |-> Transform(vals[i], rules[i]).value]))
        ELSE dsl_ret = Transform(vals[first], rules[first])

\* Every rule passed to the call is a str.
AllStrRules ==
    \/ in_rules.t = "str"
    \/ /\ in_rules.t = "list"
       /\ \A j \in 1 .. Len(in_rules.l) : in_rules.l[j].t = "str"

\* C17 as claimed: a call with a rule string or a one-element rule list ends
\* as the transform of each value by that rule, a call with one value and
\* several rules as the transform of the value by each rule, and a call with
\* lists of equal length as the pairwise transform.
C17_BroadcastAlignment_AsClaimed ==
    (IsBulk /\ Ended) =>
        LET nv == Len(in_values.l)
            nr == Len(in_rules.l)
        IN  /\ in_rules.t = "str" =>
                  Aligned(in_values.l, Replicate(in_rules, nv))
            /\ (in_rules.t = "list" /\ nr = 1) =>
                  Aligned(in_values.l, Replicate(in_rules.l[1], nv))
            /\ (in_rules.t = "list" /\ nv = 1 /\ nr > 1) =>
                  Aligned(Replicate(in_values.l[1], nr), in_rules.l)
            /\ (in_rules.t = "list" /\ nr = nv) =>
                  Aligned(in_values.l, in_rules.l)

\* C17 amended: the same for calls whose rules are all str, the one-element
\* rule list being replicated over a values list that is not empty.
C17_BroadcastAlignment ==
    (IsBulk /\ Ended /\ AllStrRules) =>
        LET nv == Len(in_values.l)
            nr == Len(in_rules.l)
        IN  /\ in_rules.t = "str" =>
                  Aligned(in_values.l, Replicate(in_rules, nv))
            /\ (in_rules.t = "list" /\ nr = 1 /\ nv >= 1) =>
                  Aligned(in_values.l, Replicate(in_rules.l[1], nv))
            /\ (in_rules.t = "list" /\ nv = 1 /\ nr > 1) =>
                  Aligned(Replicate(in_values.l[1], nr), in_rules.l)
            /\ (in_rules.t = "list" /\ nr = nv) =>
                  Aligned(in_values.l, in_rules.l)

\* One value and three rules returned three different results.
C17_Witness ==
    /\ IsBulk
    /\ dslpc = "returned"
    /\ AllStrRules
    /\ in_rules.t = "list"
    /\ Len(in_values.l) = 1
    /\ Len(in_rules.l) = 3
    /\ Len(dsl_ret.value.l) = 3
    /\ Cardinality({dsl_ret.value.l[i] : i \in 1 .. 3}) = 3

\* C18: a call with a rule list whose length differs from that of the values
\* list, neither a one-element rule list over several values nor one value
\* under several rules, raises the length-mismatch error in its first step:
\* no rule was parsed, no operation called and no result made.
C18_MismatchRaisesFirst ==
    LET nv == Len(in_values.l)
        nr == Len(in_rules.l)
    IN  (IsBulk /\ in_rules.t = "list" /\ nr # nv
           /\ ~(nr = 1 /\ nv > 1) /\ ~(nv = 1 /\ nr > 1)) =>
            /\ dslpc \in {"call", "raised"}
            /\ n_parsed = 0
            /\ n_applied = 0
            /\ bulk_results = <<>>
            /\ dslpc = "raised" => dsl_ret = RaiseValueError("Length mismatch")

\* An empty values list with a list of one rule that is not empty was refused.
C18_Witness ==
    /\ IsBulk
    /\ dslpc = "raised"
    /\ in_rules.t = "list"
    /\ Len(in_values.l) = 0
    /\ Len(in_rules.l) = 1
    /\ Truthy(in_rules.l[1])
    /\ dsl_ret = RaiseValueError("Length mismatch")

\* The rules the loop pairs with the values, after broadcasting.
EffectiveRules ==
    IF rule_strings.t = "str" THEN Replicate(rule_strings, Len(values_list.l))
    ELSE rule_strings.l

\* C19: transform(v, "") returns v without a parser or executor call; and in
\* bulk_apply_pipe_rules every pair done whose rule is "" or None has put
\* its value unchanged into the results, the parser and the executor having
\* been called once for each of the other pairs done, which have put the
\* value their rule gives.
C19_EmptyRulePassThrough ==
    /\ (fn = "transform" /\ in_rules = PyStr(<<>>)) =>
          /\ dslpc # "raised"
          /\ n_parsed = 0
          /\ n_applied = 0
          /\ dslpc = "returned" => dsl_ret = ReturnValue(in_values.l[1])
    /\ (IsBulk /\ dslpc \in {"zip", "returned"}) =>
          LET done == 1 .. Len(bulk_results)
              others == {i \in done : Truthy(EffectiveRules[i])}
          IN  /\ \A i \in done \ others : bulk_results[i] = values_list.l[i]
              /\ \A i \in others :
                    bulk_results[i] =
                        PairOutcome(values_list.l[i], EffectiveRules[i]).value
              /\ n_parsed = Cardinality(others)
              /\ n_applied = Cardinality(others)

\* Three pairs returned: one with the rule "", one with None, and one whose
\* rule changed its value.
C19_Witness ==
    /\ IsBulk
    /\ dslpc = "returned"
    /\ in_rules.t = "list"
    /\ Len(in_values.l) = 3
    /\ Len(in_rules.l) = 3
    /\ \E i, j, k \in 1 .. 3 :
          /\ in_rules.l[i] = PyStr(<<>>)
          /\ in_rules.l[j] = PyNone
          /\ Truthy(in_rules.l[k])
          /\ dsl_ret.value.l[k] # in_values.l[k]
          /\ dsl_ret.value.l[i] = in_values.l[i]

\* The list v.split(delimiter) gives for a str value.
SplitValue(v, delimiter) ==
    LET pieces == PySplit(v.s, delimiter)
    IN  PyList([i \in 1 .. Len(pieces) |-> PyStr(pieces[i])])

\* Every split step the parser returned with a delimiter has a non-empty
\* one (a bare `split` token gives a step without parameters), and the
\* token split| with nothing behind it is a parse error.
SplitDelimiterNonEmpty ==
    WasParsed =>
        /\ parsed.err = "none" =>
              \A i \in 1 .. Len(parsed.steps) :
                  (parsed.steps[i].name = <<"split">> /\ parsed.steps[i].params # <<>>) =>
                      /\ Len(parsed.steps[i].params) = 1
                      /\ parsed.steps[i].params[1] # <<>>
        /\ parsed.rule = <<"split", "|">> =>
              parsed.err = "split requires non-empty delimiter"

\* The rules split||| and split|\| split a str value on the pipe.
SplitOnPipe ==
    (WasApplied /\ applied.val.t = "str"
       /\ parsed.rule \in {<<"split", "|", "|", "|">>, <<"split", "|", "\\", "|">>}) =>
        /\ applied.steps = <<MkStep(<<"split">>, <<<<"|">>>>)>>
        /\ applied.value = SplitValue(applied.val, <<"|">>)

\* C20: the rule split|| splits a str value on a single space, the rules
\* split||| and split|\| split it on the pipe, and no split step the parser
\* returns has an empty delimiter.
C20_SplitDelimiters ==
    /\ (WasApplied /\ applied.val.t = "str" /\ parsed.rule = <<"split", "|", "|">>) =>
          /\ applied.steps = <<MkStep(<<"split">>, <<<<" ">>>>)>>
          /\ applied.value = SplitValue(applied.val, <<" ">>)
    /\ SplitOnPipe
    /\ SplitDelimiterNonEmpty

\* C30: after a bulk_apply_pipe_rules call has ended, the caller's values
\* list and rule list hold the elements they held when the call was made.
C30_ArgumentsUnchanged ==
    (fn = "bulk_apply_pipe_rules" /\ Ended) =>
        /\ values_list = in_values
        /\ rule_strings = in_rules

\* The token is name|argument, name being a registered operation that the
\* parser has no branch for.
IsGenericWithArgument(token) ==
    /\ Len(PySplitOnce(token, <<"|">>)) = 2
    /\ TokenName(token) \in Registered \ SpecialCased

\* C22: a token name|argument whose name is a registered operation outside
\* the parser's special cases is parsed into a step that calls that
\* operation with the argument; a transform call by a rule of that one token
\* does not raise and returns what the operation returns for the argument.
C22_GenericArgument ==
    /\ (WasParsed /\ parsed.err = "none") =>
          LET toks == TrimDrop(parsed.tokens)
          IN  \A i \in 1 .. Len(toks) :
                  IsGenericWithArgument(toks[i]) =>
                      /\ parsed.steps[i].name = TokenName(toks[i])
                      /\ parsed.steps[i].params = <<PySplitOnce(toks[i], <<"|">>)[2]>>
    /\ (fn = "transform" /\ Ended /\ in_rules.t = "str"
          /\ IsGenericWithArgument(in_rules.s)) =>
          /\ dslpc = "returned"
          /\ dsl_ret = ReturnValue(CallOp(TokenName(in_rules.s), in_values.l[1],
                                          <<PySplitOnce(in_rules.s, <<"|">>)[2]>>).value)

\* The coercion of a mapping value as the specification gives it: true and
\* false in any case are booleans, a decimal-looking value is a float, a
\* value of decimal digits only is an integer, any other value is kept.
ClaimedValue(v) ==
    IF PyLower(v) = <<"true">> THEN PyBool(TRUE)
    ELSE IF PyLower(v) = <<"false">> THEN PyBool(FALSE)
    ELSE IF LooksDecimal(v) THEN FloatOf(v)
    ELSE IF v # <<>> /\ \A i \in 1 .. Len(v) : v[i] \in AsciiDigits THEN IntOf(v)
    ELSE PyStr(v)

\* The pairs of the vlookup rule passed to transform, each cut at its first
\* ":"; the key and the value pair i stands for.
VlookupPairsOf(rule) ==
    LET pairs == PySplit(RStrip(From(rule, 2), {"|"}), <<",">>)
    IN  [i \in 1 .. Len(pairs) |-> PySplitOnce(pairs[i], <<":">>)]
ClaimedKey(kv) == PyLower(PyStrip(kv[1], Whitespace))

\* transform was called with a rule that is one vlookup token of the form
\* vlookup|k1:v1,k2:v2,...
IsVlookupCall ==
    /\ fn = "transform"
    /\ in_rules.t = "str"
    /\ StartsWith(in_rules.s, <<"vlookup", "|">>)
    /\ \A i \in 1 .. Len(VlookupPairsOf(in_rules.s)) :
          Len(VlookupPairsOf(in_rules.s)[i]) = 2

\* No value of the rule is written with a digit other than 0-9.
DecimalDigitsOnly == \A i \in 1 .. Len(in_rules.s) : in_rules.s[i] \notin OtherDigits

\* The rule was parsed into one vlookup_map step whose mapping has the
\* lower-cased, trimmed keys, each with the claimed value of the last pair
\* that names it; and an ended call on a str returned the value of the key
\* its lower-cased input equals, or, with no such key, its input.
VlookupAsClaimed ==
    LET kvs == VlookupPairsOf(in_rules.s)
        last(k) == CHOOSE i \in 1 .. Len(kvs) :
                      /\ ClaimedKey(kvs[i]) = k
                      /\ \A j \in (i + 1) .. Len(kvs) : ClaimedKey(kvs[j]) # k
        keys == {ClaimedKey(kvs[i]) : i \in 1 .. Len(kvs)}
        claimed(k) == ClaimedValue(PyStrip(kvs[last(k)][2], Whitespace))
        v == in_values.l[1]
    IN  /\ dslpc # "raised"
        /\ parsed.err = "none"
        /\ Len(parsed.steps) = 1
        /\ parsed.steps[1].name = <<"vlookup_map">>
        /\ Len(parsed.steps[1].params) = 1
        /\ LET mapping == parsed.steps[1].params[1]
           IN  /\ {mapping[i].k : i \in 1 .. Len(mapping)} = keys
               /\ \A i \in 1 .. Len(mapping) : mapping[i].v = claimed(mapping[i].k)
        /\ (dslpc = "returned" /\ v.t = "str") =>
              dsl_ret = ReturnValue(IF PyLower(v.s) \in keys
                                    THEN claimed(PyLower(v.s)) ELSE v)

\* C21: a vlookup|k1:v1,k2:v2,... token is parsed into a mapping with
\* lower-cased, trimmed keys and values coerced to boolean, float, integer
\* or kept as string; executed on a string it returns the mapped value when
\* the lower-cased input equals a key, and the input itself otherwise.
C21_VlookupCoercion ==
    (IsVlookupCall /\ WasParsed) => VlookupAsClaimed

\* The same on the rules whose values are written with the digits 0-9 only.
VlookupOnDecimalDigits ==
    (IsVlookupCall /\ WasParsed /\ DecimalDigitsOnly) => VlookupAsClaimed

\* The pairs (tenant, template id) that have an entry in the cache.
CachedPairs == {p \in Ids \X Ids : Cached(CacheKey(p[2], p[1]))}

\* C23: a load_template(s, t) call answered from the cache returns the
\* template that a load for the identical pair (t, s) stored since the last
\* clear_cache; and the cache holds an entry for exactly the pairs that
\* stored one, each pair its own.
C23_CacheKeyedByPair ==
    /\ load_ret.hit =>
          load_ret.template = NewTemplate(load_ret.template_id, load_ret.saas_edge_id)
    /\ CachedPairs = stored
    /\ Len(template_cache) = Cardinality(stored)

\* A load that failed has stored nothing, and no entry leaves the cache
\* except by clear_cache, which empties it.
CacheFrame ==
    [][/\ (n_loads' # n_loads /\ load_ret'.raised # "none") =>
              template_cache' = template_cache
       /\ (\E i \in 1 .. Len(template_cache) :
              \A j \in 1 .. Len(template_cache') :
                  template_cache'[j] # template_cache[i]) =>
              (template_cache' = <<>> /\ UNCHANGED <<load_ret, n_loads>>)]_vars

\* On ids without ":", the cache is keyed by the pair.
PlainIds ==
    \A i \in 1 .. Len(template_cache) :
        Len(PySplit(template_cache[i].k, <<":">>)) = 2
CacheKeyedByPairOnPlainIds ==
    (PlainIds /\ Find(load_ret.template_id \o load_ret.saas_edge_id, <<":">>) = 0)
        => C23_CacheKeyedByPair

\* ------------------------------------------------------------------ C24
\* The worker that holds batch id in the retry loop, if there is one.
HeldIn(id, pcs) ==
    \E w \in Workers : wpc[w] \in pcs /\ wbatch[w].id = id

\* C24: the delays a batch has waited are, in order, min(2^a, 10) for the
\* failed attempts a = 1, 2, ...; while the batch is in the retry loop every
\* ended attempt has been followed by its delay (none before the first
\* attempt), and once the batch has left the loop its last attempt, which
\* was the final or the successful one, has no delay after it.
C24_Backoff ==
    \A id \in BatchIds :
        /\ \A a \in 1 .. Len(waits[id]) :
               waits[id][a] = IF 2 ^ a < 10 THEN 2 ^ a ELSE 10
        /\ (waits[id] # <<>> => Len(waits[id]) < config.retry_attempts)
        /\ IF HeldIn(id, {"proc", "sleep"})
           THEN Len(waits[id]) = attempts[id]
           ELSE Len(waits[id]) = IF attempts[id] = 0 THEN 0 ELSE attempts[id] - 1

\* A batch has failed five times and waited 2, 4, 8 and 10 seconds.
C24_Witness ==
    \E id \in BatchIds :
        /\ waits[id] = <<2, 4, 8, 10>>
        /\ attempts[id] = Len(waits[id]) + 1
        /\ ~HeldIn(id, {"proc", "sleep"})
        /\ \E i \in 1 .. Len(results) : results[i].batch_id = id

\* ------------------------------------------------------------------ C25
\* The invocations of processor_func on batch id that are running: the one
\* awaited by the worker that holds the batch, and the abandoned threads.
InFlight(id) ==
    abandoned[id] + Cardinality({w \in Workers : wpc[w] = "proc" /\ wbatch[w].id = id})

\* C25: at no time are two invocations of the processing function running
\* on the same batch, whether it is a coroutine or a plain function that is
\* run in a thread.
C25_OneInFlight == \A id \in BatchIds : InFlight(id) <= 1

\* With a coroutine processing function no batch has two invocations running.
OneInFlightCoroutine ==
    processor_kind = "coroutine" => \A id \in BatchIds : InFlight(id) <= 1

\* A batch is owned by at most one worker at a time.
OneOwner ==
    \A id \in BatchIds :
        Cardinality({w \in Workers : wbatch[w].id = id}) <= 1

\* ------------------------------------------------------------------ C26
\* C26: once the error of the stream has left process_stream, is_running is
\* false and every worker task has ended.
C26_StreamErrorCloses ==
    mainpc = "raised" => ~is_running /\ \A w \in Workers : wpc[w] = "exit"

\* Nothing in a run whose stream has raised clears is_running or ends a
\* worker: the workers poll the queue for ever.
StreamErrorLeavesOpen ==
    prodpc = "failed" => is_running /\ \A w \in Workers : wpc[w] # "exit"

\* ------------------------------------------------------------------ C27
\* C27: when process_stream has returned the queue is empty, and in a run
\* no worker has ended while is_running is still true (a worker ends only
\* on the stop-signal put for it after line 101, never on one left in the
\* queue by an earlier run).
C27_QueueEmptyAtReturn ==
    /\ mainpc = "done" => queue = <<>>
    /\ is_running => \A w \in Workers : wpc[w] # "exit"

\* In the second run a worker has ended on the stop-signal the first run
\* left in the queue, before any batch of the second run was put.
StaleStopEndsWorker ==
    /\ run = 2
    /\ is_running
    /\ produced = <<>>
    /\ \E w \in Workers : wpc[w] = "exit"

\* With an unbounded queue, or one that has room for a stop-signal per
\* worker, the queue is empty when process_stream has returned.
QueueEmptyWithRoom ==
    (~config.backpressure_enabled \/ config.max_workers <= config.max_queue_size)
        => (mainpc = "done" => queue = <<>>)

\* What is left in the queue at the return is stop-signals, fewer than
\* max_workers, and every batch that was put has been acknowledged.
OnlyStopsLeft ==
    mainpc = "done" =>
        /\ \A i \in 1 .. Len(queue) : queue[i] = Sentinel
        /\ Len(queue) < config.max_workers
        /\ unfinished_tasks = Len(queue)

\* ------------------------------------------------------------------ C28
\* What the dict returned by the first process_stream call shows now: its
\* numbers are the ones computed at lines 111-116, its batch_results is the
\* list self._results (line 117), read with its present content.
FirstSummaryNow == [first_summary EXCEPT !.batch_results = results]

\* The first process_stream call has returned.
FirstReturned == run > 1 \/ (run = 1 /\ mainpc = "done")

\* C28: after the first process_stream call has returned, the summary it
\* returned shows the batch results and totals it showed at the return,
\* whatever a second call on the processor does.
C28_FirstSummaryKept == FirstReturned => FirstSummaryNow = first_summary

\* The numbers in the first summary are not written after the return.
FirstSummaryNumbersKept ==
    [][FirstReturned =>
          /\ FirstSummaryNow.total_processed' = FirstSummaryNow.total_processed
          /\ FirstSummaryNow.total_errors' = FirstSummaryNow.total_errors
          /\ FirstSummaryNow.total_batches' = FirstSummaryNow.total_batches]_vars

\* The second run has recorded a batch, and the first summary shows it in
\* place of the batches of the first run.
FirstSummaryShowsSecondRun ==
    /\ run = 2
    /\ Len(first_summary.batch_results) = 2
    /\ Len(results) = 1
    /\ FirstSummaryNow.batch_results = results

\* ------------------------------------------------------------------ C29
\* C29: a call of the completion callback finds the result of its batch
\* recorded and added to the totals and the batch not yet acknowledged; the
\* batch is acknowledged only when the call has returned or raised; and
\* when process_stream has returned with a callback given, every recorded
\* batch has had exactly one call, which has ended.
C29_RecordCallbackAck ==
    /\ \A id \in BatchIds :
          /\ Len(cb_calls[id]) <= 1
          /\ \A k \in 1 .. Len(cb_calls[id]) :
                LET c == cb_calls[id][k]
                IN  /\ c.at \in 1 .. Len(results)
                    /\ results[c.at].batch_id = id
                    /\ c.tp = c.tp0 + results[c.at].success_count
                    /\ c.te = c.te0 + results[c.at].error_count
                    /\ c.acked = 0
                    /\ acks[id] > 0 => c.state \in {"returned", "raised"}
    /\ (mainpc = "done" /\ on_batch_complete # "none") =>
          \A i \in 1 .. Len(results) :
              LET calls == cb_calls[results[i].batch_id]
              IN  /\ Len(calls) = 1
                  /\ calls[1].state \in {"returned", "raised"}
                  /\ calls[1].at = i

\* process_stream has returned after two batches whose coroutine callbacks
\* were called with the result recorded; one returned and one raised, and
\* the call of the second found both results and their rows in the totals.
C29_Witness ==
    /\ mainpc = "done"
    /\ on_batch_complete = "async"
    /\ Len(results) = 2
    /\ \A id \in {0, 1} : Len(cb_calls[id]) = 1 /\ acks[id] = 1
    /\ {cb_calls[id][1].state : id \in {id \in {0, 1} : cb_calls[id] # <<>>}}
           = {"returned", "raised"}
    /\ \E id \in {0, 1} :
           /\ cb_calls[id] # <<>>
           /\ cb_calls[id][1].at = 2
           /\ cb_calls[id][1].tp + cb_calls[id][1].te = rows_read
           /\ rows_read > 2

\* While a coroutine callback is running, its batch is not acknowledged.
NotAckedDuringCallback ==
    \A w \in Workers : wpc[w] = "callback" => acks[wbatch[w].id] = 0

====
